---- MODULE Spec2Model ----
(***************************************************************************)
(* A model of the execution core of the prediction-trading framework:      *)
(*   - the execution engine (src/src/trading/execution/engine.py): the     *)
(*     command consumer, the order poller and the positions poller, which  *)
(*     interleave at their await points only (asyncio, one event loop);    *)
(*   - the command bus and the event bus (src/src/trading/bus.py);         *)
(*   - the portfolio manager's submit/cancel side                          *)
(*     (src/src/trading/portfolio/manager.py);                             *)
(*   - the signed client's request queue, worker and retry loop            *)
(*     (src/src/kalshi/client.py).                                         *)
(* Specification Spec is the engine with its buses; SpecClient is the      *)
(* signed client.  Each leaves the other's variables unchanged.            *)
(* SpecRun adds the positions poller to Spec; SpecBus is the two buses     *)
(* with an observability recorder (src/src/observability/recorder.py);     *)
(* SpecLimiter is the token bucket (src/src/kalshi/rate_limit.py);         *)
(* SpecTrading is the command consumer with the portfolio manager's event  *)
(* side and the callers of wait_for_order_submitted.                       *)
(* SpecCancel is the signed client whose worker task may be cancelled;     *)
(* SpecClientLive is the signed client on a running event loop (weak       *)
(* fairness of the worker's steps); SpecOrders is the signed client        *)
(* serving create_order calls with the venue behind it; SpecPortfolio is   *)
(* the engine with the portfolio manager handling its events;              *)
(* SpecPollerLive is the engine with a poller that keeps running.          *)
(*                                                                         *)
(* The buses of Spec are built without a recorder (recorder=None).  The    *)
(* subscriber queues and the command queue are unbounded asyncio.Queue     *)
(* objects, so their put never suspends: a publish is one step.            *)
(***************************************************************************)
EXTENDS Integers, Sequences, FiniteSets, TLC

\* ------------------------------------------------------------------ bounds
\* Orders the venue accepts (venue order ids are 1..MaxOrders).
MaxOrders == 2
\* Commands put on the command bus over a run.
MaxCommands == 2
\* Ticks of the order poller that find a tracked order.
MaxTicks == 2
\* The rate limiter's rate is one of 1..MaxRate tokens per second.
MaxRate == 2
\* Tokens are counted in units of 1/TokenScale; time.monotonic() is counted in
\* units of 1/(rate * TokenScale) s, the time in which one unit is refilled.
TokenScale == 2
\* Calls of acquire() over a run.
MaxAcquires == 5
\* time.monotonic() over a run is 0..MaxTime.
MaxTime == 8
\* Tasks calling acquire().
MaxCallers == 2

\* Largest fill count the venue reports.
MaxFill == 2
\* Ticks of the positions poller.
MaxPosPolls == 2

\* Requests submitted to the signed client over a run (request ids 1..MaxRequests).
MaxRequests == 3
\* Worker tasks the client may create over a run.
MaxWorkers == 2

\* Messages handed to the buses over a run of the buses with a recorder.
MaxMessages == 3
\* Queues subscribe() hands out over a run (subscriber queues 1..MaxSubscribers).
MaxSubscribers == 2
\* max_queue_size of the recorder.
MaxQueueSize == 1
\* Readings of utc_now() over a run are 1..MaxClock.
MaxClock == 2
\* Calls of aclose() over a run.
MaxCloseCalls == 2

\* KalshiConfig defaults; times are in units of 0.05 s (one token of the default
\* rate limit of 20 requests per second).
MaxAttempt == 5
BaseDelay == 10
BackoffMultiplier == 2
MaxDelay == 600
\* requests.request(..., timeout=30)
HttpTimeout == 600

TradeIds == {"t1", "t2"}
VenueOrderIds == 1..MaxOrders
\* The venue's lifecycle labels; "submitted" is the engine's own initial label.
VenueStatuses == {"resting", "executed", "canceled"}

VARIABLES
    \* --- command bus (ExecutionCommandBus)
    cmd_queue,        \* _queue: the commands not yet taken, oldest first
    cmd_unfinished,   \* _queue's count of puts not yet matched by task_done
    \* --- event bus (ExecutionEventBus)
    subscribers,      \* _subscribers
    sub_queue,        \* subscriber -> its queue content, oldest first
    \* --- execution engine
    tracked,          \* _tracked, in insertion order: <<[vid, status, fill_count]>>
    consumer_pc,      \* where _consume_commands stands
    consumer_cmd,     \* the command being handled
    consumer_result,  \* outcome of the adapter call the consumer awaits
    poller_pc,        \* where _poll_orders_loop stands
    poll_keys,        \* the rest of list(self._tracked.keys()) of this tick
    poll_result,      \* outcome of the get_order_status call the poller awaits
    positions_pc,     \* where _poll_positions_loop stands
    \* --- portfolio manager
    pm_events,        \* _order_submitted_events: trade id -> absent | clear | set
    \* --- venue behind the adapter
    venue_orders,     \* venue order id -> [trade_id]: the orders the venue accepted
    \* --- history
    put_log,          \* every command put on the command bus, in order
    begun,            \* every command the consumer took, in order
    finished,         \* every command whose handling ended, in order
    published,        \* every event passed to EventBus.publish, in order
    ticks,            \* poll ticks that found tracked orders
    pos_polls         \* ticks of the positions poller

VARIABLES
    \* --- signed client (KalshiClient)
    request_queue,    \* request_queue: ids of the requests not yet taken
    req_unfinished,   \* request_queue's count of puts not yet matched by task_done
    fut,              \* request -> [state, value]: the caller's future
    worker_task,      \* _request_worker_task: 0 for None, else the worker
    worker_pc,        \* worker -> where its _request_worker stands
    worker_req,       \* worker -> the request it took (0: none)
    attempt,          \* worker -> attempt of _send_with_retries
    elapsed,          \* worker -> time.monotonic() - start
    delay,            \* worker -> the delay it sleeps
    sleeps,           \* worker -> the delays slept for the current request
    jitters,          \* worker -> the draws of random.uniform for the current request
    returned,         \* worker -> what its latest HTTP call ended with
    max_delay,        \* config.max_delay
    \* --- history
    enq_log,          \* the requests in the order they were enqueued
    send_log,         \* the request of every signed-and-sent attempt, in order
    cycle_done,       \* the requests whose _send_with_retries returned or raised
    venue_created     \* request -> the orders the venue created on its attempts

client_vars == <<request_queue, req_unfinished, fut, worker_task, worker_pc,
                 worker_req, attempt, elapsed, delay, sleeps, jitters, returned,
                 max_delay, enq_log, send_log, cycle_done, venue_created>>

VARIABLES
    \* --- event bus internals and the observability recorder
    sub_slots,        \* _subscribers in the order iteration over the set gives
    rec_queue,        \* ObservabilityRecorder._queue
    rec_closed,       \* ObservabilityRecorder._closed
    rec_worker,       \* where _run_worker stands ("none": not started)
    rec_item,         \* the record _run_worker took from the queue
    write_failures,   \* ObservabilityRecorder._write_failures
    sink,             \* the records the sink has written, in order
    sink_closed,      \* sink.close() was called
    close_pc,         \* where the first caller of aclose() stands
    clock,            \* what utc_now() returns
    first_failure_at, \* ObservabilityRecorder._first_failure_at (0: None)
    last_failure_at,  \* ObservabilityRecorder._last_failure_at (0: None)
    \* --- history
    effects,          \* record_message calls and queue puts, in program order
    dropped,          \* messages whose record was not enqueued
    failed,           \* messages whose record the sink failed to write
    close_calls,      \* calls of aclose() so far
    sentinels_put,    \* times aclose() put None on the recorder's queue
    sink_close_calls, \* times sink.close was invoked
    close_pending,    \* messages whose record was queued or being written when
                      \* aclose() was first called
    open_calls,       \* calls of record_message that found _closed unset
    sub_span          \* queue -> how many events had been published when it
                      \* was subscribed and when it was unsubscribed

\* What a call of record_message may set besides the queue and the counter.
failure_times == <<first_failure_at, last_failure_at, open_calls>>

close_history == <<close_calls, sentinels_put, sink_close_calls, close_pending>>

recorder_vars == <<sub_slots, rec_queue, rec_closed, rec_worker, rec_item,
                   write_failures, sink, sink_closed, close_pc, effects, dropped,
                   failed, clock, failure_times, close_history,
                   sub_span>>

engine_vars == <<pm_events, cmd_queue, cmd_unfinished, subscribers, sub_queue, tracked,
                 consumer_pc, consumer_cmd, consumer_result, poller_pc, poll_keys,
                 poll_result, positions_pc, venue_orders, put_log, begun, finished,
                 published, ticks, pos_polls>>

VARIABLES
    \* --- rate limiter (TokenBucketRateLimiter)
    rate,             \* rate, in tokens per second; capacity is the same number
    token_count,      \* token_count, in units of 1/TokenScale of a token
    last_checked_time, \* last_checked_time
    monotonic,        \* what time.monotonic() returns
    acquire_pc,       \* caller -> where its acquire() stands
    wake_at,          \* caller -> when its asyncio.sleep is over
    \* --- history
    acquired,         \* the calls of acquire() that returned
    first_call,       \* the time of the first call of acquire() (-1: none yet)
    last_return       \* the time the latest call to return returned

limiter_vars == <<rate, token_count, last_checked_time, monotonic, acquire_pc,
                  wake_at, acquired, first_call, last_return>>

VARIABLES
    \* --- portfolio manager, event side
    venue_order_by_trade, \* _venue_order_by_trade: trade id -> venue order id (0: absent)
    wait_pc,          \* trade id -> where the caller of wait_for_order_submitted stands
    wait_result,      \* trade id -> what that call returned (0: nothing)
    order_status,     \* _order_status: venue order id -> status ("absent": no key)
    order_fill_count, \* _order_fill_count: venue order id -> count (-1: no key)
    \* --- history
    handled,          \* the events _handle_event has handled, in order
    wait_found        \* trade id -> the awaiter's state when the wait began

\* The portfolio manager's view of its orders.
order_view == <<order_status, order_fill_count>>

pm_vars == <<venue_order_by_trade, wait_pc, wait_result, handled, wait_found,
             order_view>>

other_vars == <<limiter_vars, pm_vars>>

vars == <<engine_vars, client_vars, recorder_vars, other_vars>>

\* ------------------------------------------------------------ sequences
IsPrefix(s, t) == Len(s) <= Len(t) /\ \A i \in 1..Len(s) : s[i] = t[i]

\* The elements t has after its first Len(s) ones.
Suffix(s, t) == SubSeq(t, Len(s) + 1, Len(t))

\* ------------------------------------------------------ commands, events
NoCommand == [type |-> "none", id |-> 0]

SubmitOrder(id, trade_id) == [type |-> "submit_order", id |-> id, trade_id |-> trade_id]

CancelOrder(id, vid) == [type |-> "cancel_order", id |-> id, venue_order_id |-> vid]

\* Anything else that reaches the queue: the consumer's else branch.
UnknownCommand(id) == [type |-> "unknown", id |-> id]

OrderSubmitted(trade_id, vid) ==
    [type |-> "order_submitted", trade_id |-> trade_id, venue_order_id |-> vid]

OrderRejected(trade_id) == [type |-> "order_rejected", trade_id |-> trade_id]

OrderCanceled(vid) == [type |-> "order_canceled", venue_order_id |-> vid]

OrderUpdate(vid, status, fill_count) ==
    [type |-> "order_update", venue_order_id |-> vid, status |-> status,
     fill_count |-> fill_count]

FillUpdate(vid, filled_delta, filled_total) ==
    [type |-> "fill_update", venue_order_id |-> vid, filled_delta |-> filled_delta,
     filled_total |-> filled_total]

PositionSnapshot == [type |-> "position_snapshot"]

\* venue_order_id 0 stands for None.
ExecutionError(vid, message, retryable) ==
    [type |-> "execution_error", venue_order_id |-> vid, message |-> message,
     retryable |-> retryable]

\* Variant: a queue that hands out its newest element (last in, first out).
QueueGetNewest(q) == q[Len(q)]

\* ------------------------------------------------------------------ buses
\* asyncio.Queue.get on the command queue: the oldest item.
QueueGet(q) == Head(q)

QueueRest(q) == Tail(q)

\* Variant: events put at the front of the queues.
PublishToFront(queues, subs, evs) ==
    [s \in DOMAIN queues |-> IF s \in subs THEN evs \o queues[s] ELSE queues[s]]

\* Variant: events put on every queue ever handed out.
PublishToAll(queues, subs, evs) ==
    [s \in DOMAIN queues |-> queues[s] \o evs]

\* Variant: each event put on the queue of one subscriber only, as on a queue
\* that consumers share.
PublishToOne(queues, subs, evs) ==
    [s \in DOMAIN queues |->
        IF s \in subs /\ \A t \in subs : s <= t THEN queues[s] \o evs
        ELSE queues[s]]

\* ExecutionEventBus.publish, for each event of evs in turn: one copy on the
\* queue of every current subscriber.
PublishTo(queues, subs, evs) ==
    [s \in DOMAIN queues |-> IF s \in subs THEN queues[s] \o evs ELSE queues[s]]

Publish(evs) ==
    /\ sub_queue' = PublishTo(sub_queue, subscribers, evs)
    /\ published' = published \o evs

\* ExecutionCommandBus.put.
CommandBusPut(cmd) ==
    /\ cmd_queue' = Append(cmd_queue, cmd)
    /\ cmd_unfinished' = cmd_unfinished + 1
    /\ put_log' = Append(put_log, cmd)

\* ExecutionCommandBus.task_done.
TaskDone == cmd_unfinished' = cmd_unfinished - 1

\* ---------------------------------------------------------- tracked map
TrackedKeys(t) == [i \in DOMAIN t |-> t[i].vid]

IsTracked(t, vid) == \E i \in DOMAIN t : t[i].vid = vid

TrackedGet(t, vid) == t[CHOOSE i \in DOMAIN t : t[i].vid = vid]

\* self._tracked[vid] = {...}: a present key keeps its place, a new one goes last.
TrackedSet(t, vid, status, fill_count) ==
    LET rec == [vid |-> vid, status |-> status, fill_count |-> fill_count]
    IN  IF IsTracked(t, vid)
        THEN [i \in DOMAIN t |-> IF t[i].vid = vid THEN rec ELSE t[i]]
        ELSE Append(t, rec)

\* self._tracked.pop(vid, None)
TrackedPop(t, vid) == SelectSeq(t, LAMBDA r : r.vid # vid)

IsTerminal(status) == status \in {"executed", "canceled"}

\* ------------------------------------------------------------------- Init
NoResult == [ok |-> FALSE, kind |-> "none"]

InitEngine ==
    /\ cmd_queue = <<>>
    /\ cmd_unfinished = 0
    /\ subscribers = {"pm"}
    /\ sub_queue = [s \in {"pm"} |-> <<>>]
    /\ tracked = <<>>
    /\ consumer_pc = "get"
    /\ consumer_cmd = NoCommand
    /\ consumer_result = NoResult
    /\ poller_pc = "sleep"
    /\ poll_keys = <<>>
    /\ poll_result = NoResult
    /\ positions_pc = "sleep"
    /\ venue_orders = <<>>
    /\ pm_events = [t \in TradeIds |-> "absent"]
    /\ put_log = <<>>
    /\ begun = <<>>
    /\ finished = <<>>
    /\ published = <<>>
    /\ ticks = 0
    /\ pos_polls = 0

\* --------------------------------------------------- portfolio manager
\* PortfolioManager.submit_order: register the trade's awaiter (setdefault), then
\* put SubmitOrder on the command bus.  trade_id is the caller's choice.
PMSubmitOrder(trade_id) ==
    /\ Len(put_log) < MaxCommands
    /\ pm_events' = [pm_events EXCEPT ![trade_id] =
                        IF @ = "absent" THEN "clear" ELSE @]
    /\ CommandBusPut(SubmitOrder(Len(put_log) + 1, trade_id))
    /\ UNCHANGED <<subscribers, sub_queue, tracked, consumer_pc, consumer_cmd,
                   consumer_result, poller_pc, poll_keys, poll_result, positions_pc,
                   venue_orders, begun, finished, published, ticks, pos_polls>>
    /\ UNCHANGED <<client_vars, recorder_vars, other_vars>>

\* PortfolioManager.cancel_order: put CancelOrder on the command bus.
PMCancelOrder(vid) ==
    /\ Len(put_log) < MaxCommands
    /\ CommandBusPut(CancelOrder(Len(put_log) + 1, vid))
    /\ UNCHANGED <<pm_events, subscribers, sub_queue, tracked, consumer_pc,
                   consumer_cmd, consumer_result, poller_pc, poll_keys, poll_result,
                   positions_pc, venue_orders, begun, finished, published, ticks,
                   pos_polls>>
    /\ UNCHANGED <<client_vars, recorder_vars, other_vars>>

\* ExecutionCommandBus.put called with something that is neither command.
PutUnknown ==
    /\ Len(put_log) < MaxCommands
    /\ CommandBusPut(UnknownCommand(Len(put_log) + 1))
    /\ UNCHANGED <<pm_events, subscribers, sub_queue, tracked, consumer_pc,
                   consumer_cmd, consumer_result, poller_pc, poll_keys, poll_result,
                   positions_pc, venue_orders, begun, finished, published, ticks,
                   pos_polls>>
    /\ UNCHANGED <<client_vars, recorder_vars, other_vars>>

\* ----------------------------------------------------- command consumer
\* _consume_commands: take the next command and dispatch on its type.  A
\* SubmitOrder or CancelOrder suspends in the adapter call; anything else is
\* answered at once with ExecutionError{retryable: false} and marked done.
ConsumeCommands ==
    /\ consumer_pc = "get"
    /\ cmd_queue # <<>>
    /\ LET cmd == QueueGet(cmd_queue)
       IN  /\ cmd_queue' = QueueRest(cmd_queue)
           /\ begun' = Append(begun, cmd)
           /\ \/ /\ cmd.type = "submit_order"
                 /\ consumer_pc' = "place_order"
                 /\ consumer_cmd' = cmd
                 /\ UNCHANGED <<cmd_unfinished, finished, sub_queue, published>>
              \/ /\ cmd.type = "cancel_order"
                 /\ consumer_pc' = "cancel_order"
                 /\ consumer_cmd' = cmd
                 /\ UNCHANGED <<cmd_unfinished, finished, sub_queue, published>>
              \/ /\ cmd.type \notin {"submit_order", "cancel_order"}
                 /\ Publish(<<ExecutionError(0, "Unknown command type", FALSE)>>)
                 /\ TaskDone
                 /\ finished' = Append(finished, cmd)
                 /\ UNCHANGED <<consumer_pc, consumer_cmd>>
    /\ UNCHANGED <<pm_events, subscribers, tracked, consumer_result, poller_pc,
                   poll_keys, poll_result, positions_pc, venue_orders, put_log, ticks,
                   pos_polls>>
    /\ UNCHANGED <<client_vars, recorder_vars, other_vars>>

\* adapter.place_order at the venue: the venue accepts the order and gives it
\* the next id, or the call fails.
AdapterPlaceOrder ==
    /\ consumer_pc = "place_order"
    /\ consumer_pc' = "place_order_returned"
    /\ \/ /\ Len(venue_orders) < MaxOrders
          /\ venue_orders' = Append(venue_orders,
                 [trade_id |-> consumer_cmd.trade_id])
          /\ consumer_result' = [ok |-> TRUE, vid |-> Len(venue_orders) + 1]
       \/ /\ consumer_result' = [ok |-> FALSE, vid |-> 0]
          /\ UNCHANGED venue_orders
    /\ UNCHANGED <<pm_events, cmd_queue, cmd_unfinished, subscribers, sub_queue,
                   tracked, consumer_cmd, poller_pc, poll_keys, poll_result,
                   positions_pc, put_log, begun, finished, published, ticks, pos_polls>>
    /\ UNCHANGED <<client_vars, recorder_vars, other_vars>>

\* Variant: a rejection that is swallowed instead of published.
HandleSubmitEventsSilentReject(cmd, res) ==
    IF res.ok THEN <<OrderSubmitted(cmd.trade_id, res.vid)>> ELSE <<>>

\* Variant: an acceptance announced twice.
HandleSubmitEventsTwice(cmd, res) ==
    IF res.ok THEN <<OrderSubmitted(cmd.trade_id, res.vid),
                     OrderSubmitted(cmd.trade_id, res.vid)>>
              ELSE <<OrderRejected(cmd.trade_id)>>

\* Variant: an acceptance that is tracked but not announced.
HandleSubmitEventsUnannounced(cmd, res) ==
    IF res.ok THEN <<>> ELSE <<OrderRejected(cmd.trade_id)>>

\* _handle_submit after place_order returned or raised: the events it publishes.
HandleSubmitEvents(cmd, res) ==
    IF res.ok THEN <<OrderSubmitted(cmd.trade_id, res.vid)>>
              ELSE <<OrderRejected(cmd.trade_id)>>

\* _handle_submit: the tracked map it leaves.
HandleSubmitTracked(t, res) ==
    IF res.ok THEN TrackedSet(t, res.vid, "submitted", 0) ELSE t

\* _handle_submit resumes, then _consume_commands marks the command done.
HandleSubmit ==
    /\ consumer_pc = "place_order_returned"
    /\ tracked' = HandleSubmitTracked(tracked, consumer_result)
    /\ Publish(HandleSubmitEvents(consumer_cmd, consumer_result))
    /\ TaskDone
    /\ finished' = Append(finished, consumer_cmd)
    /\ consumer_pc' = "get"
    /\ consumer_cmd' = NoCommand
    /\ consumer_result' = NoResult
    /\ UNCHANGED <<pm_events, cmd_queue, subscribers, poller_pc, poll_keys,
                   poll_result, positions_pc, venue_orders, put_log, begun, ticks,
                   pos_polls>>
    /\ UNCHANGED <<client_vars, recorder_vars, other_vars>>

\* adapter.cancel_order at the venue: the venue cancels an order it holds, or
\* the call fails (always so for an id the venue never gave out).
AdapterCancelOrder ==
    /\ consumer_pc = "cancel_order"
    /\ consumer_pc' = "cancel_order_returned"
    /\ LET vid == consumer_cmd.venue_order_id
       IN  \/ /\ vid \in DOMAIN venue_orders
              /\ consumer_result' = [ok |-> TRUE, vid |-> vid]
           \/ consumer_result' = [ok |-> FALSE, vid |-> vid]
    /\ UNCHANGED venue_orders
    /\ UNCHANGED <<pm_events, cmd_queue, cmd_unfinished, subscribers, sub_queue,
                   tracked, consumer_cmd, poller_pc, poll_keys, poll_result,
                   positions_pc, put_log, begun, finished, published, ticks, pos_polls>>
    /\ UNCHANGED <<client_vars, recorder_vars, other_vars>>

\* Variant: a failed cancel reported as not retryable.
HandleCancelEventsNotRetryable(cmd, res) ==
    IF res.ok THEN <<OrderCanceled(cmd.venue_order_id)>>
              ELSE <<ExecutionError(cmd.venue_order_id, "cancel_order failed", FALSE)>>

\* _handle_cancel after cancel_order returned or raised: the events it publishes.
HandleCancelEvents(cmd, res) ==
    IF res.ok THEN <<OrderCanceled(cmd.venue_order_id)>>
              ELSE <<ExecutionError(cmd.venue_order_id, "cancel_order failed", TRUE)>>

\* Variant: a successful cancel takes the order out of the map.
HandleCancelTrackedPops(t, cmd, res) ==
    IF res.ok THEN TrackedPop(t, cmd.venue_order_id) ELSE t

\* _handle_cancel: the tracked map it leaves (it never touches it).
HandleCancelTracked(t, cmd, res) == t

\* _handle_cancel resumes, then _consume_commands marks the command done.
HandleCancel ==
    /\ consumer_pc = "cancel_order_returned"
    /\ tracked' = HandleCancelTracked(tracked, consumer_cmd, consumer_result)
    /\ Publish(HandleCancelEvents(consumer_cmd, consumer_result))
    /\ TaskDone
    /\ finished' = Append(finished, consumer_cmd)
    /\ consumer_pc' = "get"
    /\ consumer_cmd' = NoCommand
    /\ consumer_result' = NoResult
    /\ UNCHANGED <<pm_events, cmd_queue, subscribers, poller_pc, poll_keys,
                   poll_result, positions_pc, venue_orders, put_log, begun, ticks,
                   pos_polls>>
    /\ UNCHANGED <<client_vars, recorder_vars, other_vars>>

\* ------------------------------------------------------------ order poller
\* _poll_orders_loop: the sleep ends and the map is not empty (an empty map is
\* skipped and changes nothing): the tick iterates over a copy of the keys.
PollOrdersWake ==
    /\ poller_pc = "sleep"
    /\ tracked # <<>>
    /\ ticks < MaxTicks
    /\ ticks' = ticks + 1
    /\ poll_keys' = TrackedKeys(tracked)
    /\ poller_pc' = "get_order_status"
    /\ UNCHANGED <<pm_events, cmd_queue, cmd_unfinished, subscribers, sub_queue,
                   tracked, consumer_pc, consumer_cmd, consumer_result, poll_result,
                   positions_pc, venue_orders, put_log, begun, finished, published,
                   pos_polls>>
    /\ UNCHANGED <<client_vars, recorder_vars, other_vars>>

\* adapter.get_order_status at the venue: the venue's current (status,
\* fill_count) for the id, which is the venue's to choose, or the call fails.
AdapterGetOrderStatus ==
    /\ poller_pc = "get_order_status"
    /\ poller_pc' = "status_returned"
    /\ \/ \E s \in VenueStatuses, f \in 0..MaxFill :
              poll_result' = [ok |-> TRUE, status |-> s, fill_count |-> f]
       \/ poll_result' = [ok |-> FALSE, status |-> "", fill_count |-> 0]
    /\ UNCHANGED <<pm_events, cmd_queue, cmd_unfinished, subscribers, sub_queue,
                   tracked, consumer_pc, consumer_cmd, consumer_result, poll_keys,
                   positions_pc, venue_orders, put_log, begun, finished, published,
                   ticks, pos_polls>>
    /\ UNCHANGED <<client_vars, recorder_vars, other_vars>>

\* Variant: only a change of status counts.
ChangedStatusOnly(prev, res) == res.status # prev.status

\* changed = (status != prev_status) or (fill_count != prev_fill)
Changed(prev, res) == res.status # prev.status \/ res.fill_count # prev.fill_count

\* Variant: a FillUpdate whose delta is the running total.
PollEventsDeltaIsTotal(prev, vid, res) ==
    IF ~res.ok THEN <<ExecutionError(vid, "get_order_status failed", TRUE)>>
    ELSE IF ~Changed(prev, res) THEN <<>>
    ELSE <<OrderUpdate(vid, res.status, res.fill_count)>>
         \o (IF res.fill_count > prev.fill_count
             THEN <<FillUpdate(vid, res.fill_count, res.fill_count)>>
             ELSE <<>>)

\* Variant: the FillUpdate published ahead of the OrderUpdate of its tick.
PollEventsFillFirst(prev, vid, res) ==
    IF ~res.ok THEN <<ExecutionError(vid, "get_order_status failed", TRUE)>>
    ELSE IF ~Changed(prev, res) THEN <<>>
    ELSE (IF res.fill_count > prev.fill_count
          THEN <<FillUpdate(vid, res.fill_count - prev.fill_count, res.fill_count)>>
          ELSE <<>>)
         \o <<OrderUpdate(vid, res.status, res.fill_count)>>

\* The events one order's turn of a tick publishes, in order.
PollEvents(prev, vid, res) ==
    IF ~res.ok THEN <<ExecutionError(vid, "get_order_status failed", TRUE)>>
    ELSE IF ~Changed(prev, res) THEN <<>>
    ELSE <<OrderUpdate(vid, res.status, res.fill_count)>>
         \o (IF res.fill_count > prev.fill_count
             THEN <<FillUpdate(vid, res.fill_count - prev.fill_count, res.fill_count)>>
             ELSE <<>>)

\* Variant: a poller that lets go of executed orders only.
PollTrackedKeepCanceled(t, vid, res) ==
    IF ~res.ok \/ ~Changed(TrackedGet(t, vid), res) THEN t
    ELSE IF res.status = "executed"
         THEN TrackedPop(TrackedSet(t, vid, res.status, res.fill_count), vid)
         ELSE TrackedSet(t, vid, res.status, res.fill_count)

\* Variant: a poller that keeps orders in a terminal status.
PollTrackedKeepTerminal(t, vid, res) ==
    IF ~res.ok \/ ~Changed(TrackedGet(t, vid), res) THEN t
    ELSE TrackedSet(t, vid, res.status, res.fill_count)

\* Variant: an order whose status could not be fetched is no longer tracked.
PollTrackedDropsFailed(t, vid, res) ==
    IF ~res.ok THEN TrackedPop(t, vid)
    ELSE IF ~Changed(TrackedGet(t, vid), res) THEN t
    ELSE IF IsTerminal(res.status)
         THEN TrackedPop(TrackedSet(t, vid, res.status, res.fill_count), vid)
         ELSE TrackedSet(t, vid, res.status, res.fill_count)

\* The tracked map one order's turn of a tick leaves.
PollTracked(t, vid, res) ==
    IF ~res.ok \/ ~Changed(TrackedGet(t, vid), res) THEN t
    ELSE IF IsTerminal(res.status)
         THEN TrackedPop(TrackedSet(t, vid, res.status, res.fill_count), vid)
         ELSE TrackedSet(t, vid, res.status, res.fill_count)

\* _poll_orders_loop resumes with the answer for the current id and goes on to
\* the next id of the tick, or back to sleep.
PollOrdersStep ==
    /\ poller_pc = "status_returned"
    /\ LET vid == Head(poll_keys)
       IN  /\ Publish(PollEvents(TrackedGet(tracked, vid), vid, poll_result))
           /\ tracked' = PollTracked(tracked, vid, poll_result)
    /\ poll_keys' = Tail(poll_keys)
    /\ poller_pc' = IF Tail(poll_keys) = <<>> THEN "sleep" ELSE "get_order_status"
    /\ poll_result' = NoResult
    /\ UNCHANGED <<pm_events, cmd_queue, cmd_unfinished, subscribers, consumer_pc,
                   consumer_cmd, consumer_result, positions_pc, venue_orders, put_log,
                   begun, finished, ticks, pos_polls>>
    /\ UNCHANGED <<client_vars, recorder_vars, other_vars>>

\* -------------------------------------------------------- positions poller
\* _poll_positions_loop: the sleep ends and get_positions_snapshot is called.
PollPositionsWake ==
    /\ positions_pc = "sleep"
    /\ pos_polls < MaxPosPolls
    /\ pos_polls' = pos_polls + 1
    /\ positions_pc' = "get_positions_snapshot"
    /\ UNCHANGED <<pm_events, cmd_queue, cmd_unfinished, subscribers, sub_queue,
                   tracked, consumer_pc, consumer_cmd, consumer_result, poller_pc,
                   poll_keys, poll_result, venue_orders, put_log, begun, finished,
                   published, ticks>>
    /\ UNCHANGED <<client_vars, recorder_vars, other_vars>>

\* The events a positions tick publishes.
PositionsEvents(ok) ==
    IF ok THEN <<PositionSnapshot>>
          ELSE <<ExecutionError(0, "get_positions_snapshot failed", TRUE)>>

\* _poll_positions_loop resumes with the snapshot or the failure.
PollPositionsStep ==
    /\ positions_pc = "get_positions_snapshot"
    /\ \E ok \in BOOLEAN : Publish(PositionsEvents(ok))
    /\ positions_pc' = "sleep"
    /\ UNCHANGED <<pm_events, cmd_queue, cmd_unfinished, subscribers, tracked,
                   consumer_pc, consumer_cmd, consumer_result, poller_pc, poll_keys,
                   poll_result, venue_orders, put_log, begun, finished, ticks,
                   pos_polls>>
    /\ UNCHANGED <<client_vars, recorder_vars, other_vars>>

\* ------------------------------------------- buses with a recorder
\* The buses on their own, both built with one recorder: callers subscribe,
\* unsubscribe, publish and put; nothing takes from the queues, so a queue
\* holds everything that was ever put on it.
SubscriberQueues == 1..MaxSubscribers

\* A queue that was never subscribed.
NoSpan == [from |-> -1, to |-> -1]

\* The n-th message handed to a bus; the buses do not look inside a message.
Message(n, bus) == [type |-> bus, id |-> n]

\* ObservabilityRecord built by record_message(message, kind=kind).
Record(message, kind) == [kind |-> kind, msg |-> message.id]

\* The None that aclose() puts on the recorder's queue.
Sentinel == [kind |-> "none", msg |-> 0]

\* This entry of the effect log: record_message(message) was called and returned.
RecordEffect(message) == [op |-> "record_message", msg |-> message.id, to |-> 0]

\* This entry of the effect log: message was put on queue `to` (0: the command
\* queue, else a subscriber queue).
PutEffect(message, to) == [op |-> "put", msg |-> message.id, to |-> to]

\* The recorder as record_message sees and changes it.
RecorderState ==
    [queue |-> rec_queue, worker |-> rec_worker, failures |-> write_failures,
     dropped |-> dropped, first_failure_at |-> first_failure_at,
     last_failure_at |-> last_failure_at, now |-> clock,
     open_calls |-> open_calls]

\* self._first_failure_at or now
FirstFailureAt(first, now) == IF first = 0 THEN now ELSE first

\* put_nowait raises QueueFull.
QueueFull(q) == Len(q) >= MaxQueueSize

\* Variant: record_message that enqueues the record twice.
RecordMessageTwice(rs, closed, message, kind) ==
    IF closed THEN [rs EXCEPT !.dropped = @ \cup {message.id}]
    ELSE [rs EXCEPT !.worker = IF @ = "none" THEN "get" ELSE @,
                    !.queue = @ \o <<Record(message, kind), Record(message, kind)>>]

\* Variant: record_message that makes room by throwing out the oldest record.
RecordMessageEvictOldest(rs, closed, message, kind) ==
    IF closed THEN [rs EXCEPT !.dropped = @ \cup {message.id}]
    ELSE LET started == [rs EXCEPT !.worker = IF @ = "none" THEN "get" ELSE @]
         IN  IF QueueFull(rs.queue)
             THEN [started EXCEPT !.queue = Append(Tail(@), Record(message, kind))]
             ELSE [started EXCEPT !.queue = Append(@, Record(message, kind))]

\* Variant: record_message that stamps both failure times on every drop.
RecordMessageRestartsWindow(rs, closed, message, kind) ==
    IF closed THEN [rs EXCEPT !.dropped = @ \cup {message.id}]
    ELSE LET started == [rs EXCEPT !.worker = IF @ = "none" THEN "get" ELSE @]
         IN  IF QueueFull(rs.queue)
             THEN [started EXCEPT !.failures = @ + 1,
                                  !.dropped = @ \cup {message.id},
                                  !.first_failure_at = rs.now,
                                  !.last_failure_at = rs.now]
             ELSE [started EXCEPT !.queue = Append(@, Record(message, kind))]

\* Variant: record_message without its check of _closed.
RecordMessageIgnoresClosed(rs, closed, message, kind) ==
    LET started == [rs EXCEPT !.worker = IF @ = "none" THEN "get" ELSE @,
                              !.open_calls = @ + 1]
    IN  IF QueueFull(rs.queue)
        THEN [started EXCEPT !.failures = @ + 1,
                             !.dropped = @ \cup {message.id},
                             !.first_failure_at = FirstFailureAt(@, rs.now),
                             !.last_failure_at = rs.now]
        ELSE [started EXCEPT !.queue = Append(@, Record(message, kind))]

\* Variant: record_message that drops on a full queue without counting.
RecordMessageDropsUncounted(rs, closed, message, kind) ==
    IF closed THEN [rs EXCEPT !.dropped = @ \cup {message.id}]
    ELSE LET started == [rs EXCEPT !.worker = IF @ = "none" THEN "get" ELSE @,
                                   !.open_calls = @ + 1]
         IN  IF QueueFull(rs.queue)
             THEN [started EXCEPT !.dropped = @ \cup {message.id}]
             ELSE [started EXCEPT !.queue = Append(@, Record(message, kind))]

\* record_message: nothing when closed; else start the writer if it is not
\* started, build the record and put_nowait it, counting a failure when the
\* queue is full.
RecordMessage(rs, closed, message, kind) ==
    IF closed THEN [rs EXCEPT !.dropped = @ \cup {message.id}]
    ELSE LET started == [rs EXCEPT !.worker = IF @ = "none" THEN "get" ELSE @,
                                   !.open_calls = @ + 1]
         IN  IF QueueFull(rs.queue)
             THEN [started EXCEPT !.failures = @ + 1,
                                  !.dropped = @ \cup {message.id},
                                  !.first_failure_at = FirstFailureAt(@, rs.now),
                                  !.last_failure_at = rs.now]
             ELSE [started EXCEPT !.queue = Append(@, Record(message, kind))]

\* record_message for each message of a sequence in turn.
RECURSIVE RecordAll(_, _, _, _)
RecordAll(rs, closed, messages, kind) ==
    IF messages = <<>> THEN rs
    ELSE RecordAll(RecordMessage(rs, closed, Head(messages), kind), closed,
                   Tail(messages), kind)

\* The recorder after record_message was called for each of messages.
Recorded(messages, kind) ==
    LET rs == RecordAll(RecorderState, rec_closed, messages, kind)
    IN  /\ rec_queue' = rs.queue
        /\ rec_worker' = rs.worker
        /\ write_failures' = rs.failures
        /\ dropped' = rs.dropped
        /\ first_failure_at' = rs.first_failure_at
        /\ last_failure_at' = rs.last_failure_at
        /\ open_calls' = rs.open_calls

\* Variant: publish that delivers first and records afterwards.
PublishEffectsDeliverFirst(message, slots) ==
    [i \in 1..Len(slots) |-> PutEffect(message, slots[i])]
        \o <<RecordEffect(message)>>

\* ExecutionEventBus.publish: record_message, then for q in
\* list(self._subscribers): q.put(event).
PublishEffects(message, slots) ==
    <<RecordEffect(message)>>
        \o [i \in 1..Len(slots) |-> PutEffect(message, slots[i])]

\* publish for each message of a sequence in turn.
RECURSIVE PublishManyEffects(_, _)
PublishManyEffects(messages, slots) ==
    IF messages = <<>> THEN <<>>
    ELSE PublishEffects(Head(messages), slots)
            \o PublishManyEffects(Tail(messages), slots)

\* Messages handed to the buses so far.
NumMessages == Len(put_log) + Len(published)

\* Where in the iteration order of the set a queue just added can come: the
\* order follows the hashes of the queue objects, which are their addresses.
SlotsFor(slots) == 1..(Len(slots) + 1)

InsertAt(slots, i, q) ==
    SubSeq(slots, 1, i - 1) \o <<q>> \o SubSeq(slots, i, Len(slots))

InitRecorder ==
    /\ sub_slots = <<>>
    /\ rec_queue = <<>>
    /\ rec_closed = FALSE
    /\ rec_worker = "none"
    /\ rec_item = Sentinel
    /\ write_failures = 0
    /\ sink = <<>>
    /\ sink_closed = FALSE
    /\ close_pc = "none"
    /\ effects = <<>>
    /\ dropped = {}
    /\ failed = {}
    /\ clock = 1
    /\ first_failure_at = 0
    /\ last_failure_at = 0
    /\ open_calls = 0
    /\ sub_span = [q \in SubscriberQueues |-> NoSpan]
    /\ close_calls = 0
    /\ sentinels_put = 0
    /\ sink_close_calls = 0
    /\ close_pending = {}

\* What Subscribe and Unsubscribe leave alone besides the recorder: the
\* engine's loops and the signed client.
SubscriptionFrame ==
    /\ UNCHANGED clock
    /\ UNCHANGED other_vars
    /\ UNCHANGED <<pm_events, tracked, consumer_pc, consumer_cmd, consumer_result,
                   poller_pc, poll_keys, poll_result, positions_pc, venue_orders,
                   begun, finished, ticks, pos_polls>>
    /\ UNCHANGED client_vars

\* What the other bus actions leave alone.
BusFrame == SubscriptionFrame /\ UNCHANGED sub_span

\* The buses just built, with no subscriber yet.
InitBus ==
    /\ cmd_queue = <<>>
    /\ cmd_unfinished = 0
    /\ subscribers = {}
    /\ sub_queue = <<>>
    /\ tracked = <<>>
    /\ consumer_pc = "get"
    /\ consumer_cmd = NoCommand
    /\ consumer_result = NoResult
    /\ poller_pc = "sleep"
    /\ poll_keys = <<>>
    /\ poll_result = NoResult
    /\ positions_pc = "sleep"
    /\ venue_orders = <<>>
    /\ pm_events = [t \in TradeIds |-> "absent"]
    /\ put_log = <<>>
    /\ begun = <<>>
    /\ finished = <<>>
    /\ published = <<>>
    /\ ticks = 0
    /\ pos_polls = 0

\* ExecutionEventBus.subscribe: a new queue, added to the set.
Subscribe ==
    LET q == Len(sub_queue) + 1
    IN  /\ q \in SubscriberQueues
        /\ sub_queue' = Append(sub_queue, <<>>)
        /\ subscribers' = subscribers \cup {q}
        /\ \E i \in SlotsFor(sub_slots) : sub_slots' = InsertAt(sub_slots, i, q)
        /\ sub_span' = [sub_span EXCEPT ![q] = [from |-> Len(published), to |-> -1]]
        /\ UNCHANGED <<cmd_queue, cmd_unfinished, put_log, published>>
        /\ UNCHANGED <<rec_queue, rec_closed, rec_worker, rec_item, write_failures,
                       sink, sink_closed, close_pc, effects, dropped, failed>>
        /\ UNCHANGED failure_times
        /\ UNCHANGED close_history
        /\ SubscriptionFrame

\* ExecutionEventBus.unsubscribe(q).
Unsubscribe(q) ==
    /\ q \in subscribers
    /\ subscribers' = subscribers \ {q}
    /\ sub_slots' = SelectSeq(sub_slots, LAMBDA x : x # q)
    /\ sub_span' = [sub_span EXCEPT ![q].to = Len(published)]
    /\ UNCHANGED <<cmd_queue, cmd_unfinished, put_log, published, sub_queue>>
    /\ UNCHANGED <<rec_queue, rec_closed, rec_worker, rec_item, write_failures,
                   sink, sink_closed, close_pc, effects, dropped, failed>>
    /\ UNCHANGED failure_times
    /\ UNCHANGED close_history
    /\ SubscriptionFrame

\* ExecutionEventBus.publish_many(events) for k new events; publish(event) is
\* the case of one event.  Neither record_message nor a put on an unbounded
\* queue suspends, so the whole call is one step.
BusPublishMany(k) ==
    LET events == [i \in 1..k |-> Message(NumMessages + i, "event")]
    IN  /\ NumMessages + k <= MaxMessages
        /\ Recorded(events, "event")
        /\ Publish(events)
        /\ effects' = effects \o PublishManyEffects(events, sub_slots)
        /\ UNCHANGED <<cmd_queue, cmd_unfinished, put_log, subscribers, sub_slots>>
        /\ UNCHANGED <<rec_closed, rec_item, sink, sink_closed, close_pc, failed>>
        /\ UNCHANGED close_history
        /\ BusFrame

\* ExecutionCommandBus.put(cmd).
BusPut ==
    LET cmd == Message(NumMessages + 1, "command")
    IN  /\ NumMessages < MaxMessages
        /\ Recorded(<<cmd>>, "command")
        /\ CommandBusPut(cmd)
        /\ effects' = effects \o <<RecordEffect(cmd), PutEffect(cmd, 0)>>
        /\ UNCHANGED <<published, subscribers, sub_queue, sub_slots>>
        /\ UNCHANGED <<rec_closed, rec_item, sink, sink_closed, close_pc, failed>>
        /\ UNCHANGED close_history
        /\ BusFrame

\* _run_worker: queue.get() returns; for None the worker returns, for a record
\* it hands sink.write to a thread.
RecorderGet ==
    /\ rec_worker = "get"
    /\ rec_queue # <<>>
    /\ rec_queue' = Tail(rec_queue)
    /\ IF Head(rec_queue) = Sentinel
       THEN /\ rec_worker' = "done"
            /\ UNCHANGED rec_item
       ELSE /\ rec_worker' = "write"
            /\ rec_item' = Head(rec_queue)
    /\ UNCHANGED <<cmd_queue, cmd_unfinished, put_log, published, subscribers,
                   sub_queue, sub_slots>>
    /\ UNCHANGED <<rec_closed, write_failures, sink, sink_closed, close_pc,
                   effects, dropped, failed>>
    /\ UNCHANGED failure_times
    /\ UNCHANGED close_history
    /\ BusFrame

\* Variant: a writer that ends when sink.write raises.
SinkWriteStopsOnFailure ==
    /\ rec_worker = "write"
    /\ \/ /\ sink' = Append(sink, rec_item)
          /\ rec_worker' = "get"
          /\ UNCHANGED <<write_failures, failed, failure_times>>
       \/ /\ write_failures' = write_failures + 1
          /\ first_failure_at' = FirstFailureAt(first_failure_at, clock)
          /\ last_failure_at' = clock
          /\ UNCHANGED open_calls
          /\ failed' = failed \cup {rec_item.msg}
          /\ rec_worker' = "done"
          /\ UNCHANGED sink
    /\ rec_item' = Sentinel
    /\ UNCHANGED <<cmd_queue, cmd_unfinished, put_log, published, subscribers,
                   sub_queue, sub_slots>>
    /\ UNCHANGED <<rec_queue, rec_closed, sink_closed, close_pc, effects, dropped>>
    /\ UNCHANGED close_history
    /\ BusFrame

\* _run_worker: sink.write returns, or raises and the failure is counted.
SinkWrite ==
    /\ rec_worker = "write"
    /\ \/ /\ sink' = Append(sink, rec_item)
          /\ UNCHANGED <<write_failures, failed, failure_times>>
       \/ /\ write_failures' = write_failures + 1
          /\ first_failure_at' = FirstFailureAt(first_failure_at, clock)
          /\ last_failure_at' = clock
          /\ UNCHANGED open_calls
          /\ failed' = failed \cup {rec_item.msg}
          /\ UNCHANGED sink
    /\ rec_worker' = "get"
    /\ rec_item' = Sentinel
    /\ UNCHANGED <<cmd_queue, cmd_unfinished, put_log, published, subscribers,
                   sub_queue, sub_slots>>
    /\ UNCHANGED <<rec_queue, rec_closed, sink_closed, close_pc, effects, dropped>>
    /\ UNCHANGED close_history
    /\ BusFrame

\* aclose() up to its first suspension: mark closed; with a writer, put None
\* (waiting if the queue is full) and await the writer; then close the sink.
AClose ==
    /\ ~rec_closed
    /\ close_pc = "none"
    /\ close_calls < MaxCloseCalls
    /\ close_calls' = close_calls + 1
    /\ close_pending' = {rec_queue[i].msg : i \in DOMAIN rec_queue}
                            \cup (IF rec_worker = "write" THEN {rec_item.msg} ELSE {})
    /\ rec_closed' = TRUE
    /\ IF rec_worker = "none"
       THEN /\ close_pc' = "close_sink"
            /\ UNCHANGED <<rec_queue, sentinels_put>>
       ELSE IF QueueFull(rec_queue)
       THEN /\ close_pc' = "put"
            /\ UNCHANGED <<rec_queue, sentinels_put>>
       ELSE /\ close_pc' = "await_worker"
            /\ rec_queue' = Append(rec_queue, Sentinel)
            /\ sentinels_put' = sentinels_put + 1
    /\ UNCHANGED sink_close_calls
    /\ UNCHANGED <<cmd_queue, cmd_unfinished, put_log, published, subscribers,
                   sub_queue, sub_slots>>
    /\ UNCHANGED <<rec_worker, rec_item, write_failures, sink, sink_closed,
                   effects, dropped, failed>>
    /\ UNCHANGED failure_times
    /\ BusFrame

\* aclose(): the queue has room again and put(None) goes through.
AClosePut ==
    /\ close_pc = "put"
    /\ ~QueueFull(rec_queue)
    /\ rec_queue' = Append(rec_queue, Sentinel)
    /\ sentinels_put' = sentinels_put + 1
    /\ close_pc' = "await_worker"
    /\ UNCHANGED <<close_calls, sink_close_calls, close_pending>>
    /\ UNCHANGED <<cmd_queue, cmd_unfinished, put_log, published, subscribers,
                   sub_queue, sub_slots>>
    /\ UNCHANGED <<rec_closed, rec_worker, rec_item, write_failures, sink,
                   sink_closed, effects, dropped, failed>>
    /\ UNCHANGED failure_times
    /\ BusFrame

\* Variant: aclose() that does not wait for the writer to return.
ACloseAwaitedNoWait ==
    /\ close_pc = "await_worker"
    /\ close_pc' = "close_sink"
    /\ UNCHANGED <<cmd_queue, cmd_unfinished, put_log, published, subscribers,
                   sub_queue, sub_slots>>
    /\ UNCHANGED <<rec_queue, rec_closed, rec_worker, rec_item, write_failures,
                   sink, sink_closed, effects, dropped, failed>>
    /\ UNCHANGED failure_times
    /\ UNCHANGED close_history
    /\ BusFrame

\* aclose(): the writer has returned; sink.close is handed to a thread.
ACloseAwaited ==
    /\ close_pc = "await_worker"
    /\ rec_worker = "done"
    /\ close_pc' = "close_sink"
    /\ UNCHANGED <<cmd_queue, cmd_unfinished, put_log, published, subscribers,
                   sub_queue, sub_slots>>
    /\ UNCHANGED <<rec_queue, rec_closed, rec_worker, rec_item, write_failures,
                   sink, sink_closed, effects, dropped, failed>>
    /\ UNCHANGED failure_times
    /\ UNCHANGED close_history
    /\ BusFrame

\* aclose(): sink.close returns and so does aclose.
ACloseSink ==
    /\ close_pc = "close_sink"
    /\ sink_closed' = TRUE
    /\ sink_close_calls' = sink_close_calls + 1
    /\ close_pc' = "done"
    /\ UNCHANGED <<close_calls, sentinels_put, close_pending>>
    /\ UNCHANGED <<cmd_queue, cmd_unfinished, put_log, published, subscribers,
                   sub_queue, sub_slots>>
    /\ UNCHANGED <<rec_queue, rec_closed, rec_worker, rec_item, write_failures,
                   sink, effects, dropped, failed>>
    /\ UNCHANGED failure_times
    /\ BusFrame

\* Variant: a repeated aclose() that closes the sink once more.
ACloseAgainClosesSink ==
    /\ rec_closed
    /\ close_calls < MaxCloseCalls
    /\ close_calls' = close_calls + 1
    /\ sink_closed' = TRUE
    /\ sink_close_calls' = sink_close_calls + 1
    /\ UNCHANGED <<sentinels_put, close_pending>>
    /\ UNCHANGED <<cmd_queue, cmd_unfinished, put_log, published, subscribers,
                   sub_queue, sub_slots>>
    /\ UNCHANGED <<rec_queue, rec_closed, rec_worker, rec_item, write_failures,
                   sink, close_pc, effects, dropped, failed>>
    /\ UNCHANGED failure_times
    /\ BusFrame

\* aclose() called when _closed is already set, by whoever and whenever: it
\* returns at once.
ACloseAgain ==
    /\ rec_closed
    /\ close_calls < MaxCloseCalls
    /\ close_calls' = close_calls + 1
    /\ UNCHANGED <<sentinels_put, sink_close_calls, close_pending>>
    /\ UNCHANGED <<cmd_queue, cmd_unfinished, put_log, published, subscribers,
                   sub_queue, sub_slots>>
    /\ UNCHANGED <<rec_queue, rec_closed, rec_worker, rec_item, write_failures,
                   sink, sink_closed, close_pc, effects, dropped, failed>>
    /\ UNCHANGED failure_times
    /\ BusFrame

\* Time passes: the next reading of utc_now() is later.
ClockTick ==
    /\ clock < MaxClock
    /\ clock' = clock + 1
    /\ UNCHANGED <<engine_vars, client_vars, other_vars>>
    /\ UNCHANGED <<sub_slots, rec_queue, rec_closed, rec_worker, rec_item,
                   write_failures, sink, sink_closed, close_pc, effects, dropped,
                   failed, failure_times, close_history, sub_span>>

NextBus ==
    \/ Subscribe
    \/ \E q \in SubscriberQueues : Unsubscribe(q)
    \/ \E k \in 1..2 : BusPublishMany(k)
    \/ BusPut
    \/ RecorderGet
    \/ SinkWrite
    \/ AClose
    \/ AClosePut
    \/ ACloseAwaited
    \/ ACloseSink
    \/ ACloseAgain
    \/ ClockTick

\* ------------------------------------------------------------ signed client
Requests == 1..MaxRequests
Workers == 1..MaxWorkers

\* What one HTTP attempt for request r can end with: a 2xx response, a
\* KalshiHttpError, a requests.RequestException, or any other exception.
HttpOk(r) == [kind |-> "ok", status |-> 200, req |-> r]
HttpError(r, status) == [kind |-> "http", status |-> status, req |-> r]
TransportError(r) == [kind |-> "transport", status |-> 0, req |-> r]
OtherError(r) == [kind |-> "other", status |-> 0, req |-> r]

Outcomes(r) ==
    {HttpOk(r), TransportError(r), OtherError(r)}
        \cup {HttpError(r, status) : status \in {400, 429, 500}}

\* How long an HTTP call takes: no time to speak of, or the whole timeout.
HttpDurations == {0, HttpTimeout}

\* Variant: every HTTP error status taken as transient.
IsRetryableErrorAnyStatus(exc) ==
    IF exc.kind = "http" THEN exc.status >= 400 ELSE exc.kind = "transport"

\* _is_retryable_error
IsRetryableError(exc) ==
    IF exc.kind = "http" THEN exc.status = 429 \/ exc.status >= 500
    ELSE exc.kind = "transport"

\* Variant: the exponent one too high.
BackoffDelayTooFar(n) == BaseDelay * BackoffMultiplier ^ n

\* base_delay * backoff_multiplier ** (attempt - 1)
BackoffDelay(n) == BaseDelay * BackoffMultiplier ^ (n - 1)

\* random.uniform(0.0, delay * 0.1): its two ends.
Jitters(d) == {0, d \div 10}

\* No HTTP call has returned yet; the value of a future that has none.
NoOutcome == [kind |-> "none", status |-> 0, req |-> 0]

NoFuture == [state |-> "none", value |-> NoOutcome]

\* A client just constructed, whatever its configuration.
NewClient ==
    /\ request_queue = <<>>
    /\ req_unfinished = 0
    /\ fut = [r \in Requests |-> NoFuture]
    /\ worker_task = 0
    /\ worker_pc = [w \in Workers |-> "none"]
    /\ worker_req = [w \in Workers |-> 0]
    /\ attempt = [w \in Workers |-> 0]
    /\ elapsed = [w \in Workers |-> 0]
    /\ delay = [w \in Workers |-> 0]
    /\ sleeps = [w \in Workers |-> <<>>]
    /\ jitters = [w \in Workers |-> <<>>]
    /\ returned = [w \in Workers |-> NoOutcome]
    /\ enq_log = <<>>
    /\ send_log = <<>>
    /\ cycle_done = {}
    /\ venue_created = [r \in Requests |-> 0]

\* The values of config.max_delay: the default, and a budget of three base
\* delays, which the second retry delay can pass.
MaxDelays == {MaxDelay, 3 * BaseDelay}

InitClient ==
    /\ NewClient
    /\ max_delay \in MaxDelays

\* Variant: a request queue that hands out its newest request.
RequestQueueGetNewest(q) == q[Len(q)]

\* request_queue.get(): the oldest request waiting.
RequestQueueGet(q) == Head(q)

\* Variant: _ensure_worker_started without its check, creating a worker on
\* every call.
WorkerToStartAlways(task, pcs) == task + 1

\* _ensure_worker_started: the worker to create, 0 when the current task is
\* there and not done.
WorkerToStart(task, pcs) ==
    IF task # 0 /\ pcs[task] # "done" THEN 0 ELSE task + 1

\* _enqueue_request up to its await of the future: ensure the worker, create the
\* future, put the request (the queue is unbounded: put does not suspend).
EnqueueRequest ==
    LET r == Len(enq_log) + 1
        w == WorkerToStart(worker_task, worker_pc)
    IN  /\ r \in Requests
        /\ w \in Workers \cup {0}
        /\ IF w = 0
           THEN UNCHANGED <<worker_task, worker_pc>>
           ELSE /\ worker_task' = w
                /\ worker_pc' = [worker_pc EXCEPT ![w] = "get"]
        /\ fut' = [fut EXCEPT ![r] = [state |-> "pending", value |-> NoOutcome]]
        /\ request_queue' = Append(request_queue, r)
        /\ req_unfinished' = req_unfinished + 1
        /\ enq_log' = Append(enq_log, r)
        /\ UNCHANGED <<worker_req, attempt, elapsed, delay, sleeps, jitters,
                       returned, max_delay, send_log, cycle_done, venue_created>>
        /\ UNCHANGED <<engine_vars, recorder_vars, other_vars>>

\* The task awaiting the future is cancelled: the future is cancelled with it.
CallerCancel(r) ==
    /\ fut[r].state = "pending"
    /\ fut' = [fut EXCEPT ![r] = [state |-> "cancelled", value |-> NoOutcome]]
    /\ UNCHANGED <<request_queue, req_unfinished, worker_task, worker_pc,
                   worker_req, attempt, elapsed, delay, sleeps, jitters, returned,
                   max_delay, enq_log, send_log, cycle_done, venue_created>>
    /\ UNCHANGED <<engine_vars, recorder_vars, other_vars>>

\* The locals of _send_with_retries before its first attempt.
NoAttempt(w) ==
    /\ attempt' = [attempt EXCEPT ![w] = 0]
    /\ elapsed' = [elapsed EXCEPT ![w] = 0]
    /\ delay' = [delay EXCEPT ![w] = 0]
    /\ sleeps' = [sleeps EXCEPT ![w] = <<>>]
    /\ jitters' = [jitters EXCEPT ![w] = <<>>]
    /\ returned' = [returned EXCEPT ![w] = NoOutcome]

\* _request_worker: request_queue.get() returns and _send_with_retries runs to
\* its first suspension: rate_limiter.acquire() finds a token (the bucket holds
\* rate_limit = 20 of them, more than the sends of these runs, so it takes one
\* and returns at once), _send_request signs the request and hands the HTTP
\* call to a thread.
WorkerGet(w) ==
    /\ worker_pc[w] = "get"
    /\ request_queue # <<>>
    /\ worker_req' = [worker_req EXCEPT ![w] = RequestQueueGet(request_queue)]
    /\ request_queue' = Tail(request_queue)
    /\ NoAttempt(w)
    /\ send_log' = Append(send_log, RequestQueueGet(request_queue))
    /\ worker_pc' = [worker_pc EXCEPT ![w] = "send"]
    /\ UNCHANGED <<req_unfinished, fut, worker_task, max_delay, enq_log,
                   cycle_done, venue_created>>
    /\ UNCHANGED <<engine_vars, recorder_vars, other_vars>>

\* Variant: a worker that sets results only and lets a failure go.
CompleteFutureResultOnly(f, outcome) ==
    IF f.state = "cancelled" THEN f
    ELSE IF outcome.kind = "ok" THEN [state |-> "result", value |-> outcome]
    ELSE f

\* _request_worker after _send_with_retries returned or raised: complete the
\* future unless it is cancelled.
CompleteFuture(f, outcome) ==
    IF f.state = "cancelled" THEN f
    ELSE IF outcome.kind = "ok" THEN [state |-> "result", value |-> outcome]
    ELSE [state |-> "exception", value |-> outcome]

\* The cycle of worker w ends with outcome: future completed, task_done, and
\* the worker is back at request_queue.get().  What _send_with_retries held
\* when it ended stays on record until the worker takes its next request.
EndCycle(w, outcome) ==
    /\ fut' = [fut EXCEPT ![worker_req[w]] = CompleteFuture(@, outcome)]
    /\ req_unfinished' = req_unfinished - 1
    /\ cycle_done' = cycle_done \cup {worker_req[w]}
    /\ worker_pc' = [worker_pc EXCEPT ![w] = "get"]
    /\ worker_req' = [worker_req EXCEPT ![w] = 0]

\* Variant: one attempt more than max_attempt.
RaisesAtOnceLate(exc, n) == ~IsRetryableError(exc) \/ n > MaxAttempt

\* Whether _send_with_retries re-raises failure number n before it computes a
\* delay: not retryable, or out of attempts.
RaisesAtOnce(exc, n) == ~IsRetryableError(exc) \/ n >= MaxAttempt

\* Variant: a budget that looks at the time gone only, not at the delay to come.
GivesUpPastBudget(exc, n, time, d) ==
    \/ RaisesAtOnce(exc, n)
    \/ time > max_delay

\* Whether _send_with_retries gives up after failure number n, time after its
\* start, with d the delay it would sleep: not retryable, out of attempts, or
\* the delay would pass max_delay.
GivesUp(exc, n, time, d) ==
    \/ RaisesAtOnce(exc, n)
    \/ time + d > max_delay

\* The HTTP call of worker w returns or raises after some time: what
\* _send_with_retries and _request_worker do with it.
HttpEnds(w) ==
    /\ worker_pc[w] = "send"
    /\ \E outcome \in Outcomes(worker_req[w]), t \in HttpDurations :
        LET time == elapsed[w] + t
            n == attempt[w] + 1
        IN  /\ returned' = [returned EXCEPT ![w] = outcome]
            /\ elapsed' = [elapsed EXCEPT ![w] = time]
            /\ IF outcome.kind = "ok"
               THEN /\ EndCycle(w, outcome)
                    /\ UNCHANGED <<attempt, delay, jitters>>
               ELSE /\ attempt' = [attempt EXCEPT ![w] = n]
                    /\ \E j \in Jitters(BackoffDelay(n)) :
                        LET d == BackoffDelay(n) + j
                        IN  /\ IF RaisesAtOnce(outcome, n)
                               THEN UNCHANGED <<delay, jitters>>
                               ELSE /\ delay' = [delay EXCEPT ![w] = d]
                                    /\ jitters' = [jitters EXCEPT ![w] = Append(@, j)]
                            /\ IF GivesUp(outcome, n, time, d)
                               THEN EndCycle(w, outcome)
                               ELSE /\ worker_pc' = [worker_pc EXCEPT ![w] = "sleep"]
                                    /\ UNCHANGED <<fut, req_unfinished, cycle_done,
                                                   worker_req>>
    /\ UNCHANGED <<request_queue, worker_task, sleeps, max_delay, enq_log,
                   send_log>>
    /\ UNCHANGED <<engine_vars, recorder_vars, other_vars>>

\* The orders the venue may have created by the time an attempt of POST
\* /portfolio/orders ends with outcome: one for a 2xx; one or none when the
\* connection failed or timed out (the request may have arrived) and for a 5xx
\* (the failure may have come after the order was booked); none for a 4xx.
VenueCreates(outcome) ==
    IF outcome.kind = "ok" THEN {1}
    ELSE IF outcome.kind = "transport" THEN {0, 1}
    ELSE IF outcome.kind = "http" /\ outcome.status >= 500 THEN {0, 1}
    ELSE {0}

\* The HTTP call of worker w returns or raises, with what the request did at
\* the venue left out of the picture.
HttpReturn(w) == HttpEnds(w) /\ UNCHANGED venue_created

\* The HTTP call of create_order returns or raises: the venue has created an
\* order or not, as the outcome allows.  The body sent is the same on every
\* attempt, and carries a client_order_id only if the request has one.
CreateOrderReturn(w) ==
    /\ HttpEnds(w)
    /\ \E n \in VenueCreates(returned'[w]) :
        venue_created' = [venue_created EXCEPT ![worker_req[w]] = @ + n]

\* asyncio.sleep(delay) of the retry loop ends and the next attempt runs to its
\* suspension: acquire, sign, HTTP call handed to a thread.
WorkerWake(w) ==
    /\ worker_pc[w] = "sleep"
    /\ elapsed' = [elapsed EXCEPT ![w] = @ + delay[w]]
    /\ sleeps' = [sleeps EXCEPT ![w] = Append(@, delay[w])]
    /\ send_log' = Append(send_log, worker_req[w])
    /\ worker_pc' = [worker_pc EXCEPT ![w] = "send"]
    /\ UNCHANGED <<request_queue, req_unfinished, fut, worker_task, worker_req,
                   attempt, delay, jitters, returned, max_delay, enq_log,
                   cycle_done, venue_created>>
    /\ UNCHANGED <<engine_vars, recorder_vars, other_vars>>

\* The worker task is cancelled while it is suspended.  At request_queue.get()
\* it holds no request.  In _send_with_retries (the HTTP call or the retry
\* sleep) CancelledError is raised at the await: it is no Exception, so neither
\* the except clause nor the else clause of _request_worker runs, the finally
\* clause calls task_done(), and the task ends with the future untouched.  The
\* locals of the ended coroutines are gone.
WorkerCancel(w) ==
    /\ worker_pc[w] \in {"get", "send", "sleep"}
    /\ worker_pc' = [worker_pc EXCEPT ![w] = "done"]
    /\ req_unfinished' = IF worker_req[w] # 0 THEN req_unfinished - 1
                                              ELSE req_unfinished
    /\ worker_req' = [worker_req EXCEPT ![w] = 0]
    /\ NoAttempt(w)
    /\ UNCHANGED <<request_queue, fut, worker_task, max_delay, enq_log,
                   send_log, cycle_done, venue_created>>
    /\ UNCHANGED <<engine_vars, recorder_vars, other_vars>>

NextClient ==
    \/ EnqueueRequest
    \/ \E r \in Requests : CallerCancel(r)
    \/ \E w \in Workers : WorkerGet(w)
    \/ \E w \in Workers : HttpReturn(w)
    \/ \E w \in Workers : WorkerWake(w)

\* ----------------------------------------------------------- specification
\* The command consumer and the order poller of ExecutionEngine.run, with the
\* portfolio manager's commands.
\* ------------------------------------------------------------- rate limiter
Callers == 1..MaxCallers

\* capacity = float(rate), in units.
Capacity(r) == r * TokenScale

\* A limiter just constructed with rate r.
NewLimiter(r) ==
    /\ rate = r
    /\ token_count = Capacity(r)
    /\ last_checked_time = 0
    /\ monotonic = 0
    /\ acquire_pc = [c \in Callers |-> "idle"]
    /\ wake_at = [c \in Callers |-> 0]
    /\ acquired = 0
    /\ first_call = -1
    /\ last_return = 0

Min(a, b) == IF a <= b THEN a ELSE b

\* Variant: a refill that is not clamped to capacity.
RefillUnclamped(tokens, since, cap) == tokens + since

\* min(self.capacity, self.token_count + elapsed * self.rate)
Refill(tokens, since, cap) == Min(cap, tokens + since)

\* Variant: any fraction of a token is enough.
CanConsumeFraction(tokens) == tokens > 0

\* self.token_count >= 1.0
CanConsume(tokens) == tokens >= TokenScale

\* One pass of acquire()'s loop for caller c: refill for the time since the
\* last check, then take a token and return, or sleep for the deficit.
AcquireLoop(c) ==
    LET tokens == Refill(token_count, monotonic - last_checked_time, Capacity(rate))
    IN  /\ last_checked_time' = monotonic
        /\ IF CanConsume(tokens)
           THEN /\ token_count' = tokens - TokenScale
                /\ acquire_pc' = [acquire_pc EXCEPT ![c] = "idle"]
                /\ acquired' = acquired + 1
                /\ last_return' = monotonic
                /\ UNCHANGED wake_at
           ELSE /\ token_count' = tokens
                /\ acquire_pc' = [acquire_pc EXCEPT ![c] = "sleep"]
                /\ wake_at' = [wake_at EXCEPT ![c] = monotonic + (TokenScale - tokens)]
                /\ UNCHANGED <<acquired, last_return>>
        /\ UNCHANGED <<rate, monotonic>>
        /\ UNCHANGED <<engine_vars, client_vars, recorder_vars, pm_vars>>

\* Calls of acquire() so far: those that returned and those that sleep.
NumAcquires == acquired + Cardinality({c \in Callers : acquire_pc[c] = "sleep"})

\* Caller c calls acquire().
Acquire(c) ==
    /\ acquire_pc[c] = "idle"
    /\ NumAcquires < MaxAcquires
    /\ first_call' = (IF first_call < 0 THEN monotonic ELSE first_call)
    /\ AcquireLoop(c)

\* Caller c's asyncio.sleep is over and its loop goes round again.
AcquireWake(c) ==
    /\ acquire_pc[c] = "sleep"
    /\ monotonic >= wake_at[c]
    /\ UNCHANGED first_call
    /\ AcquireLoop(c)

\* Time passes.
MonotonicTick ==
    /\ monotonic < MaxTime
    /\ monotonic' = monotonic + 1
    /\ UNCHANGED <<rate, token_count, last_checked_time, acquire_pc, wake_at,
                   acquired, first_call, last_return>>
    /\ UNCHANGED <<engine_vars, client_vars, recorder_vars, pm_vars>>

NextLimiter ==
    \/ \E c \in Callers : Acquire(c)
    \/ \E c \in Callers : AcquireWake(c)
    \/ MonotonicTick

\* ---------------------------------------------- portfolio manager, events
\* A portfolio manager just constructed.
NewPM ==
    /\ venue_order_by_trade = [t \in TradeIds |-> 0]
    /\ wait_pc = [t \in TradeIds |-> "none"]
    /\ wait_result = [t \in TradeIds |-> 0]
    /\ handled = <<>>
    /\ wait_found = [t \in TradeIds |-> "none"]
    /\ order_status = [v \in VenueOrderIds |-> "absent"]
    /\ order_fill_count = [v \in VenueOrderIds |-> -1]

\* What the portfolio manager's event side leaves alone.
PMFrame ==
    /\ UNCHANGED <<cmd_queue, cmd_unfinished, subscribers, tracked, consumer_pc,
                   consumer_cmd, consumer_result, poller_pc, poll_keys, poll_result,
                   positions_pc, venue_orders, put_log, begun, finished, published,
                   ticks, pos_polls>>
    /\ UNCHANGED <<client_vars, recorder_vars, limiter_vars>>

\* _handle_event: the map of venue order ids by trade it leaves.
HandleEventOrders(orders, event) ==
    IF event.type = "order_submitted"
    THEN [orders EXCEPT ![event.trade_id] = event.venue_order_id]
    ELSE orders

\* _handle_event: the awaiters it leaves, that of the trade of an
\* OrderSubmitted created if absent and set.
HandleEventAwaiters(awaiters, event) ==
    IF event.type = "order_submitted"
    THEN [awaiters EXCEPT ![event.trade_id] = "set"]
    ELSE awaiters

\* _handle_event: the statuses by venue order id it leaves.
HandleEventStatus(statuses, event) ==
    IF event.type = "order_submitted"
    THEN [statuses EXCEPT ![event.venue_order_id] = "submitted"]
    ELSE IF event.type = "order_update"
    THEN [statuses EXCEPT ![event.venue_order_id] = event.status]
    ELSE statuses

\* Variant: a FillUpdate handled by adding its delta to the count.
HandleEventFillCountAddsDelta(counts, event) ==
    IF event.type = "order_submitted"
    THEN [counts EXCEPT ![event.venue_order_id] = 0]
    ELSE IF event.type = "order_update"
    THEN [counts EXCEPT ![event.venue_order_id] = event.fill_count]
    ELSE IF event.type = "fill_update"
    THEN [counts EXCEPT ![event.venue_order_id] = @ + event.filled_delta]
    ELSE counts

\* _handle_event: the fill counts by venue order id it leaves.
HandleEventFillCount(counts, event) ==
    IF event.type = "order_submitted"
    THEN [counts EXCEPT ![event.venue_order_id] = 0]
    ELSE IF event.type = "order_update"
    THEN [counts EXCEPT ![event.venue_order_id] = event.fill_count]
    ELSE IF event.type = "fill_update"
    THEN [counts EXCEPT ![event.venue_order_id] = event.filled_total]
    ELSE counts

\* PortfolioManager.run: take the next event from the subscription and handle
\* it; _handle_event does not suspend.
PMRun ==
    /\ sub_queue["pm"] # <<>>
    /\ LET event == Head(sub_queue["pm"])
       IN  /\ sub_queue' = [sub_queue EXCEPT !["pm"] = Tail(@)]
           /\ venue_order_by_trade' = HandleEventOrders(venue_order_by_trade, event)
           /\ pm_events' = HandleEventAwaiters(pm_events, event)
           /\ handled' = Append(handled, event)
           /\ order_status' = HandleEventStatus(order_status, event)
           /\ order_fill_count' = HandleEventFillCount(order_fill_count, event)
    /\ UNCHANGED <<wait_pc, wait_result, wait_found>>
    /\ PMFrame

\* Variant: an awaiter made anew by every call.
SetDefaultEventFresh(state) == "clear"

\* self._order_submitted_events.setdefault(trade_id, asyncio.Event())
SetDefaultEvent(state) == IF state = "absent" THEN "clear" ELSE state

\* wait_for_order_submitted(trade_id) is called: the awaiter is looked up or
\* created and the caller waits for it under the timeout.
WaitForOrderSubmitted(trade_id) ==
    /\ wait_pc[trade_id] = "none"
    /\ pm_events' = [pm_events EXCEPT ![trade_id] = SetDefaultEvent(@)]
    /\ wait_pc' = [wait_pc EXCEPT ![trade_id] = "waiting"]
    /\ wait_found' = [wait_found EXCEPT ![trade_id] = pm_events[trade_id]]
    /\ UNCHANGED <<sub_queue, venue_order_by_trade, wait_result, handled>>
    /\ UNCHANGED order_view
    /\ PMFrame

\* ev.wait() is over because the awaiter is set: the call returns
\* self._venue_order_by_trade[trade_id].
WaitReturns(trade_id) ==
    /\ wait_pc[trade_id] = "waiting"
    /\ pm_events[trade_id] = "set"
    /\ wait_pc' = [wait_pc EXCEPT ![trade_id] = "returned"]
    /\ wait_result' = [wait_result EXCEPT ![trade_id] = venue_order_by_trade[trade_id]]
    /\ UNCHANGED <<sub_queue, pm_events, venue_order_by_trade, handled, wait_found>>
    /\ UNCHANGED order_view
    /\ PMFrame

\* timeout_s is over with the awaiter still clear: asyncio.wait_for raises
\* TimeoutError.
WaitTimesOut(trade_id) ==
    /\ wait_pc[trade_id] = "waiting"
    /\ pm_events[trade_id] # "set"
    /\ wait_pc' = [wait_pc EXCEPT ![trade_id] = "timed_out"]
    /\ UNCHANGED <<sub_queue, pm_events, venue_order_by_trade, wait_result, handled,
                   wait_found>>
    /\ UNCHANGED order_view
    /\ PMFrame

NextPM ==
    \/ PMRun
    \/ \E t \in TradeIds : WaitForOrderSubmitted(t)
    \/ \E t \in TradeIds : WaitReturns(t)
    \/ \E t \in TradeIds : WaitTimesOut(t)

NextEngine ==
    \/ \E t \in TradeIds : PMSubmitOrder(t)
    \/ \E v \in VenueOrderIds : PMCancelOrder(v)
    \/ PutUnknown
    \/ ConsumeCommands
    \/ AdapterPlaceOrder
    \/ HandleSubmit
    \/ AdapterCancelOrder
    \/ HandleCancel
    \/ PollOrdersWake
    \/ AdapterGetOrderStatus
    \/ PollOrdersStep

\* The positions poller, which shares only the event bus with the other loops.
NextPositions ==
    \/ PollPositionsWake
    \/ PollPositionsStep

Init == InitEngine /\ InitClient /\ InitRecorder /\ NewLimiter(MaxRate) /\ NewPM

Next == NextEngine

Spec == Init /\ [][Next]_vars

\* All three loops of ExecutionEngine.run.
NextRun == NextEngine \/ NextPositions

InitRun ==
    InitEngine /\ NewClient /\ max_delay = MaxDelay /\ InitRecorder
        /\ NewLimiter(MaxRate) /\ NewPM

SpecRun == InitRun /\ [][NextRun]_vars

\* The signed client with its callers.
SpecClient == Init /\ [][NextClient]_vars

\* The signed client whose worker task may be cancelled (the task is a field
\* of the client, and a closing event loop cancels it), with callers that keep
\* awaiting their futures.
NextCancel ==
    \/ EnqueueRequest
    \/ \E w \in Workers : WorkerGet(w)
    \/ \E w \in Workers : HttpReturn(w)
    \/ \E w \in Workers : WorkerWake(w)
    \/ \E w \in Workers : WorkerCancel(w)

SpecCancel == InitRun /\ [][NextCancel]_vars

\* A step of the worker task: it is runnable whenever such a step is enabled.
WorkerStep == \E w \in Workers : WorkerGet(w) \/ HttpReturn(w) \/ WorkerWake(w)

\* The signed client on a running event loop with a transport that always
\* returns and callers that keep awaiting their futures: the loop resumes the
\* worker when its queue has a request, when the thread of its HTTP call ended
\* (requests has a timeout), and when its sleep is over.
NextClientLive == EnqueueRequest \/ WorkerStep

\* A client configured with the short retry budget.
InitClientLive ==
    InitEngine /\ NewClient /\ max_delay = 3 * BaseDelay /\ InitRecorder
        /\ NewLimiter(MaxRate) /\ NewPM

SpecClientLive ==
    InitClientLive /\ [][NextClientLive]_vars /\ WF_vars(WorkerStep)

\* The signed client serving create_order calls, one for each SubmitOrder the
\* engine handles (_handle_submit calls adapter.place_order, which calls
\* client.create_order once), with the venue behind it.
NextOrders ==
    \/ EnqueueRequest
    \/ \E w \in Workers : WorkerGet(w)
    \/ \E w \in Workers : CreateOrderReturn(w)
    \/ \E w \in Workers : WorkerWake(w)

SpecOrders == InitClientLive /\ [][NextOrders]_vars

\* The two buses with a recorder, and their callers.
InitBuses ==
    InitBus /\ NewClient /\ max_delay = MaxDelay /\ InitRecorder
        /\ NewLimiter(MaxRate) /\ NewPM

SpecBus == InitBuses /\ [][NextBus]_vars

\* The rate limiter with its callers, for every rate.
InitLimiter ==
    InitEngine /\ NewClient /\ max_delay = MaxDelay /\ InitRecorder /\ NewPM
        /\ \E r \in 1..MaxRate : NewLimiter(r)

SpecLimiter == InitLimiter /\ [][NextLimiter]_vars

\* The command consumer with the portfolio manager consuming its events and
\* callers waiting for their orders to be submitted.  The pollers are left
\* out: their events change nothing the waiting callers read.
InitTrading ==
    InitEngine /\ NewClient /\ max_delay = MaxDelay /\ InitRecorder
        /\ NewLimiter(MaxRate) /\ NewPM

NextCommands ==
    \/ \E t \in TradeIds : PMSubmitOrder(t)
    \/ \E v \in VenueOrderIds : PMCancelOrder(v)
    \/ PutUnknown
    \/ ConsumeCommands
    \/ AdapterPlaceOrder
    \/ HandleSubmit
    \/ AdapterCancelOrder
    \/ HandleCancel

NextTrading == NextCommands \/ NextPM

SpecTrading == InitTrading /\ [][NextTrading]_vars

\* The engine's command consumer and order poller with the portfolio manager
\* handling the events they publish.
NextPortfolio == NextEngine \/ PMRun

SpecPortfolio == InitRun /\ [][NextPortfolio]_vars

\* The engine with an order poller that keeps running: its sleep ends, the
\* adapter's get_order_status returns or raises, and the loop goes on from
\* there (a failure is caught and the next order is asked for).
SpecPollerLive ==
    /\ InitRun
    /\ [][NextEngine]_vars
    /\ WF_vars(PollOrdersWake)
    /\ WF_vars(AdapterGetOrderStatus)
    /\ WF_vars(PollOrdersStep)

\* ------------------------------------------------------------------ claims
\* The events a step adds to the publication log.
NewEvents == Suffix(published, published')

\* The step in which _handle_submit resumes after place_order.
SubmitHandledStep == consumer_pc = "place_order_returned" /\ consumer_pc' = "get"

\* The step in which _handle_cancel resumes after cancel_order.
CancelHandledStep == consumer_pc = "cancel_order_returned" /\ consumer_pc' = "get"

\* The step in which the poller resumes after get_order_status.
PollStep == poller_pc = "status_returned" /\ poller_pc' # "status_returned"

\* OrderSubmitted events published so far for a trade id.
NumSubmitted(trade_id) ==
    Cardinality({i \in DOMAIN published :
        /\ published[i].type = "order_submitted"
        /\ published[i].trade_id = trade_id})

\* Submissions with this trade id that the venue accepted so far.
NumAccepted(trade_id) ==
    Cardinality({v \in DOMAIN venue_orders : venue_orders[v].trade_id = trade_id})

\* The HTTP calls of the signed client that are in flight: the workers whose
\* call was handed to a thread and has not returned.
InFlight == {w \in Workers : worker_pc[w] = "send"}

\* A log of sends with every run of attempts of one request taken as one.
RECURSIVE Collapse(_)
Collapse(s) ==
    IF Len(s) <= 1 THEN s
    ELSE IF s[1] = s[2] THEN Collapse(Tail(s))
    ELSE <<s[1]>> \o Collapse(Tail(s))

\* C1: at most one HTTP call of the signed client is in flight, however many
\* callers have enqueued requests.
C1_OneHttpCallInFlight == Cardinality(InFlight) <= 1

C1_Witness ==
    /\ Cardinality(InFlight) = 1
    /\ Len(request_queue) >= 2

\* C2: the requests are sent in the order they were enqueued, and a step signs
\* and sends a request only when every request enqueued before it has ended its
\* cycle of sends and retries (returned or raised).
C2_SentInEnqueueOrder ==
    /\ [](IsPrefix(Collapse(send_log), enq_log))
    /\ [][send_log' # send_log =>
            LET r == send_log'[Len(send_log')]
            IN  \A i, j \in DOMAIN enq_log :
                    (i < j /\ enq_log[j] = r) => enq_log[i] \in cycle_done]_vars

C2_Witness ==
    /\ Len(send_log) >= 3
    /\ send_log[1] = send_log[2]
    /\ send_log[Len(send_log)] # send_log[1]
    /\ Len(enq_log) = MaxRequests

\* C3: the consumer takes the commands in exactly the order they were put on the
\* command bus, and it takes a command only when the handling of the one before
\* (adapter call, publication, task_done) has ended.
C3_CommandsFifoOneAtATime ==
    /\ IsPrefix(begun, put_log)
    /\ IsPrefix(finished, begun)
    /\ Len(begun) <= Len(finished) + 1
    /\ (consumer_pc = "get") <=> (Len(begun) = Len(finished))
    /\ begun \o cmd_queue = put_log

C3_Witness ==
    /\ Len(finished) >= 2
    /\ finished[1].type = "submit_order"
    /\ finished[2].type = "cancel_order"

\* C4: the step that handles one SubmitOrder publishes exactly one event:
\* OrderSubmitted with the id place_order returned, the order then tracked as
\* {submitted, 0} and the rest of the map as before, when place_order succeeded;
\* OrderRejected, with the map as before, when it failed.
C4_SubmitPublishesOneEvent ==
    [][SubmitHandledStep =>
        /\ IsPrefix(published, published')
        /\ Len(NewEvents) = 1
        /\ IF consumer_result.ok
           THEN /\ NewEvents[1] =
                       OrderSubmitted(consumer_cmd.trade_id, consumer_result.vid)
                /\ IsTracked(tracked', consumer_result.vid)
                /\ TrackedGet(tracked', consumer_result.vid) =
                       [vid |-> consumer_result.vid, status |-> "submitted",
                        fill_count |-> 0]
                /\ TrackedPop(tracked', consumer_result.vid) =
                       TrackedPop(tracked, consumer_result.vid)
           ELSE /\ NewEvents[1] = OrderRejected(consumer_cmd.trade_id)
                /\ tracked' = tracked]_vars

C4_Witness ==
    /\ \E i \in DOMAIN published : published[i].type = "order_submitted"
    /\ \E i \in DOMAIN published : published[i].type = "order_rejected"
    /\ consumer_pc = "get"

\* C5 as stated: once every command is handled, a trade id with an accepted
\* submission has exactly one OrderSubmitted.
C5_OneSubmittedPerTradeId ==
    (consumer_pc = "get" /\ cmd_queue = <<>>) =>
        \A t \in TradeIds : NumAccepted(t) > 0 => NumSubmitted(t) = 1

\* C5, amended: for every trade id the OrderSubmitted events published for it are
\* as many as the accepted submissions carrying it, the one whose handling has
\* not yet resumed left out: one event per accepted submission.
C5_OneSubmittedPerAcceptedSubmission ==
    \A t \in TradeIds :
        NumAccepted(t) =
            NumSubmitted(t)
            + (IF /\ consumer_pc = "place_order_returned"
                  /\ consumer_result.ok
                  /\ consumer_cmd.trade_id = t
               THEN 1 ELSE 0)

\* Two accepted submissions reuse one trade id; both are announced.
C5_Witness ==
    /\ consumer_pc = "get"
    /\ cmd_queue = <<>>
    /\ \E t \in TradeIds : NumAccepted(t) = 2 /\ NumSubmitted(t) = 2

\* C6: a step publishes a FillUpdate exactly when it is the poller resuming with
\* a fill count above the tracked one, and then exactly one, for that order,
\* with filled_delta = new - prev and filled_total = new.
C6_FillUpdatePerIncrease ==
    [][LET fills == SelectSeq(NewEvents, LAMBDA e : e.type = "fill_update")
       IN  IF /\ PollStep
              /\ poll_result.ok
              /\ poll_result.fill_count >
                     TrackedGet(tracked, Head(poll_keys)).fill_count
           THEN fills = <<FillUpdate(
                    Head(poll_keys),
                    poll_result.fill_count
                        - TrackedGet(tracked, Head(poll_keys)).fill_count,
                    poll_result.fill_count)>>
           ELSE fills = <<>>]_vars

\* A fill that did not start from zero: delta and total differ.
C6_Witness ==
    \E i \in DOMAIN published :
        /\ published[i].type = "fill_update"
        /\ published[i].filled_delta < published[i].filled_total

\* C7: when the poller resumes with status executed or canceled for an order,
\* the step publishes the OrderUpdate with that status and leaves the order out
\* of the tracked map; and an order for which such an OrderUpdate was published
\* is not tracked in any later state.
C7_TerminalRemoved ==
    /\ [](\A i \in DOMAIN published :
            (published[i].type = "order_update" /\ IsTerminal(published[i].status))
                => ~IsTracked(tracked, published[i].venue_order_id))
    /\ [][(PollStep /\ poll_result.ok /\ IsTerminal(poll_result.status)) =>
            /\ NewEvents # <<>>
            /\ NewEvents[1] = OrderUpdate(Head(poll_keys), poll_result.status,
                                          poll_result.fill_count)
            /\ ~IsTracked(tracked', Head(poll_keys))]_vars

\* An order left tracking while another one is still tracked.
C7_Witness ==
    /\ \E i \in DOMAIN published :
          /\ published[i].type = "order_update"
          /\ published[i].status = "canceled"
    /\ tracked # <<>>

\* C8: every OrderUpdate and FillUpdate in the publication log comes after the
\* OrderSubmitted that carries the same venue order id.
C8_SubmittedFirst ==
    \A i \in DOMAIN published :
        published[i].type \in {"order_update", "fill_update"} =>
            \E j \in 1..(i - 1) :
                /\ published[j].type = "order_submitted"
                /\ published[j].venue_order_id = published[i].venue_order_id

\* The second order is submitted after the first one was already updated.
C8_Witness ==
    \E i, j \in DOMAIN published :
        /\ i < j
        /\ published[i].type = "order_update"
        /\ published[j].type = "order_submitted"
        /\ \E k \in DOMAIN published :
              /\ k > j
              /\ published[k].type = "fill_update"
              /\ published[k].venue_order_id = published[j].venue_order_id

\* C9: every FillUpdate in the publication log directly follows the OrderUpdate
\* of the same order that reports the same fill count (the one of its tick).
C9_FillAfterUpdate ==
    \A i \in DOMAIN published :
        published[i].type = "fill_update" =>
            /\ i > 1
            /\ published[i - 1].type = "order_update"
            /\ published[i - 1].venue_order_id = published[i].venue_order_id
            /\ published[i - 1].fill_count = published[i].filled_total

\* Two ticks each published a FillUpdate for the same order.
C9_Witness ==
    \E i, j \in DOMAIN published :
        /\ i < j
        /\ published[i].type = "fill_update"
        /\ published[j].type = "fill_update"
        /\ published[i].venue_order_id = published[j].venue_order_id

\* C10: the step that handles CancelOrder{vid} publishes exactly OrderCanceled{vid}
\* when cancel_order succeeded and exactly ExecutionError{vid, retryable: true}
\* when it failed, whether vid is tracked or not.
C10_CancelOutcome ==
    [][CancelHandledStep =>
        /\ IsPrefix(published, published')
        /\ Len(NewEvents) = 1
        /\ NewEvents[1].venue_order_id = consumer_cmd.venue_order_id
        /\ IF consumer_result.ok
           THEN NewEvents[1].type = "order_canceled"
           ELSE /\ NewEvents[1].type = "execution_error"
                /\ NewEvents[1].retryable = TRUE]_vars

\* A cancel that succeeded for an order the poller had already removed.
C10_Witness ==
    \E i, j \in DOMAIN published :
        /\ i < j
        /\ published[i].type = "order_update"
        /\ IsTerminal(published[i].status)
        /\ published[j].type = "order_canceled"
        /\ published[j].venue_order_id = published[i].venue_order_id

\* How many times request r was signed and sent.
Sends(r) == Cardinality({i \in DOMAIN send_log : send_log[i] = r})

RECURSIVE SumSeq(_)
SumSeq(q) == IF q = <<>> THEN 0 ELSE Head(q) + SumSeq(Tail(q))

\* The caller of a request whose cycle ended with outcome has it as the result
\* or the exception of its future, unless the caller went away before.
Surfaces(f, outcome) ==
    \/ f.state = "cancelled"
    \/ /\ f.state = (IF outcome.kind = "ok" THEN "result" ELSE "exception")
       /\ f.value = outcome

\* The step in which the HTTP call of worker w returns or raises.
HttpReturnStep(w) == worker_pc[w] = "send" /\ worker_pc'[w] # "send"

\* Worker w ended the cycle of a request and has not taken the next one.
CycleEnded(w) == worker_pc[w] = "get" /\ returned[w] # NoOutcome

\* C11: no request is sent more than max_attempt times, and failure number
\* max_attempt of a request, retryable like the ones before it, ends the cycle:
\* the request was sent exactly max_attempt times and the caller gets that last
\* failure.
C11_MaxAttemptFailuresSurface ==
    /\ \A r \in Requests : Sends(r) <= MaxAttempt
    /\ \A w \in Workers :
        attempt[w] >= MaxAttempt =>
            /\ CycleEnded(w)
            /\ attempt[w] = MaxAttempt
            /\ Sends(returned[w].req) = MaxAttempt
            /\ returned[w].kind # "ok"
            /\ Surfaces(fut[returned[w].req], returned[w])

C11_Witness ==
    \E w \in Workers :
        /\ CycleEnded(w)
        /\ attempt[w] = MaxAttempt
        /\ IsRetryableError(returned[w])
        /\ elapsed[w] <= max_delay
        /\ fut[returned[w].req] = [state |-> "exception", value |-> returned[w]]
        /\ Sends(returned[w].req) = MaxAttempt

\* An HTTP error whose status is neither 429 nor 500 or more, or an exception
\* that is neither an HTTP error nor a transport error.
IsPermanentFailure(outcome) ==
    \/ outcome.kind = "http" /\ outcome.status # 429 /\ outcome.status < 500
    \/ outcome.kind = "other"

\* C12: a step in which the HTTP call raises an error that is not retryable
\* ends the cycle with that error for the caller, with no delay computed and
\* nothing sent; when it is the first failure of the request, the request was
\* sent once and no retry sleep was taken.
C12_NonRetryableSurfacesAtOnce ==
    [][\A w \in Workers :
        (/\ HttpReturnStep(w)
         /\ IsPermanentFailure(returned'[w])) =>
            /\ worker_pc'[w] = "get"
            /\ Surfaces(fut'[worker_req[w]], returned'[w])
            /\ send_log' = send_log
            /\ jitters'[w] = jitters[w]
            /\ attempt[w] = 0 => (Sends(worker_req[w]) = 1 /\ sleeps'[w] = <<>>)]_vars

C12_Witness ==
    /\ \E r \in Requests :
        /\ fut[r] = [state |-> "exception", value |-> HttpError(r, 400)]
        /\ Sends(r) = 1
    /\ \E r \in Requests :
        /\ fut[r] = [state |-> "exception", value |-> OtherError(r)]
        /\ Sends(r) = 1

\* C13: a step in which the HTTP call raises a retryable error and the delay
\* drawn for the next sleep, added to the sleeps already taken for the request,
\* passes max_delay, ends the cycle with that error for the caller: no sleep
\* starts and nothing is sent; a request whose cycle ended is with no worker.
C13_BudgetExceededSurfaces ==
    /\ [][\A w \in Workers :
            (/\ HttpReturnStep(w)
             /\ Len(jitters'[w]) > Len(jitters[w])
             /\ SumSeq(sleeps[w]) + delay'[w] > max_delay) =>
                /\ worker_pc'[w] = "get"
                /\ Surfaces(fut'[worker_req[w]], returned'[w])
                /\ send_log' = send_log
                /\ sleeps' = sleeps]_vars
    /\ [](\A w \in Workers : worker_req[w] \notin cycle_done)

\* The budget is passed by the sleeps and the delay alone, the HTTP calls having
\* taken no time, and only because of the jitter drawn.
C13_Witness ==
    \E w \in Workers :
        /\ CycleEnded(w)
        /\ IsRetryableError(returned[w])
        /\ attempt[w] < MaxAttempt
        /\ elapsed[w] = SumSeq(sleeps[w])
        /\ SumSeq(sleeps[w]) + delay[w] > max_delay
        /\ SumSeq(sleeps[w]) + BackoffDelay(attempt[w]) <= max_delay
        /\ Len(sleeps[w]) = attempt[w] - 1
        /\ fut[returned[w].req] = [state |-> "exception", value |-> returned[w]]

\* C14: whenever every jitter drawn for a request was 0, its k-th retry sleep is
\* base_delay * backoff_multiplier^(k-1); a cycle that ended in a success after
\* two such sleeps slept <<0.5 s, 1.0 s>> and the caller has the result.
C14_BackoffSleeps ==
    \A w \in Workers :
        /\ (\A k \in DOMAIN jitters[w] : jitters[w][k] = 0) =>
                \A k \in DOMAIN sleeps[w] :
                    sleeps[w][k] = BaseDelay * BackoffMultiplier ^ (k - 1)
        /\ (/\ CycleEnded(w)
            /\ returned[w].kind = "ok"
            /\ jitters[w] = <<0, 0>>) =>
                /\ sleeps[w] = <<BaseDelay, 2 * BaseDelay>>
                /\ Sends(returned[w].req) = 3
                /\ Surfaces(fut[returned[w].req], returned[w])

C14_Witness ==
    \E w \in Workers :
        /\ CycleEnded(w)
        /\ returned[w].kind = "ok"
        /\ jitters[w] = <<0, 0>>
        /\ sleeps[w] = <<10, 20>>
        /\ fut[returned[w].req] = [state |-> "result", value |-> returned[w]]

\* s can be had from t by leaving elements out.
RECURSIVE IsSubsequence(_, _)
IsSubsequence(q, t) ==
    IF q = <<>> THEN TRUE
    ELSE IF t = <<>> THEN FALSE
    ELSE IF Head(q) = Head(t) THEN IsSubsequence(Tail(q), Tail(t))
    ELSE IsSubsequence(q, Tail(t))

\* A step of publish or publish_many.
PublishStep == published' # published

\* How often message is on the sequence q.
Copies(q, message) == Cardinality({i \in DOMAIN q : q[i] = message})

\* C15: every subscriber queue holds events in the order of their publication,
\* and a step of publish_many adds its events to the queue of every subscriber
\* in the order they were given.
C15_SubscribersSeePublicationOrder ==
    /\ [](\A q \in DOMAIN sub_queue : IsSubsequence(sub_queue[q], published))
    /\ [][PublishStep =>
            \A q \in subscribers : sub_queue'[q] = sub_queue[q] \o NewEvents]_vars

\* A subscriber that came after the first event holds the two events of one
\* publish_many.
C15_Witness ==
    /\ Len(published) = 3
    /\ \E q \in subscribers :
        /\ Len(sub_queue[q]) = 2
        /\ \E i \in DOMAIN effects :
            /\ i + 3 \in DOMAIN effects
            /\ effects[i] = [op |-> "put", msg |-> sub_queue[q][1].id, to |-> q]
            /\ effects[i + 1].op = "record_message"
            /\ effects[i + 1].msg = sub_queue[q][2].id

\* C16: a step of publish puts each of its events once on the queue of every
\* queue subscribed at that time and on no other queue, and no step puts
\* anything on a queue that is not subscribed.
C16_OneCopyPerSubscriber ==
    [][/\ PublishStep =>
            \A q \in DOMAIN sub_queue, i \in DOMAIN NewEvents :
                Copies(sub_queue'[q], NewEvents[i]) =
                    (IF q \in subscribers THEN 1 ELSE 0)
       /\ \A q \in DOMAIN sub_queue :
            q \notin subscribers => sub_queue'[q] = sub_queue[q]]_vars

\* An event went to a subscriber and not to a queue unsubscribed before it.
C16_Witness ==
    \E q1, q2 \in DOMAIN sub_queue :
        /\ q1 \notin subscribers
        /\ q2 \in subscribers
        /\ sub_queue[q1] # <<>>
        /\ Len(sub_queue[q2]) > Len(sub_queue[q1])
        /\ IsSubsequence(sub_queue[q1], sub_queue[q2])

\* C17 as stated: of two puts of one event, the one on the queue that
\* subscribed earlier comes first (queues are numbered as they subscribed).
C17_DeliveredInSubscriptionOrder ==
    \A i, j \in DOMAIN effects :
        (/\ effects[i].op = "put"
         /\ effects[j].op = "put"
         /\ effects[i].msg = effects[j].msg
         /\ 0 < effects[i].to
         /\ effects[i].to < effects[j].to) => i < j

\* C18: every put of a message on the command queue or on a subscriber queue
\* comes after the call of record_message for that message.
C18_RecordedBeforeDelivered ==
    \A i \in DOMAIN effects :
        effects[i].op = "put" =>
            \E j \in 1..(i - 1) :
                /\ effects[j].op = "record_message"
                /\ effects[j].msg = effects[i].msg

C18_Witness ==
    /\ \E i \in DOMAIN effects : effects[i].op = "put" /\ effects[i].to = 0
    /\ \E i \in DOMAIN effects : effects[i].op = "put" /\ effects[i].to > 0

\* The messages that were put on the command queue or on a subscriber queue.
Delivered == {effects[i].msg : i \in {k \in DOMAIN effects : effects[k].op = "put"}}

\* The records of message m that the sink holds.
InSink(m) == {i \in DOMAIN sink : sink[i].msg = m}

\* A record of message m is in the recorder's queue, with the writer, or in
\* the sink.
HasRecord(m) ==
    \/ \E i \in DOMAIN rec_queue : rec_queue[i].msg = m
    \/ rec_worker = "write" /\ rec_item.msg = m
    \/ InSink(m) # {}

\* C19 as stated: every delivered message has a record in flight or persisted.
C19_DeliveredHasRecord == \A m \in Delivered : HasRecord(m)

\* C19, amended: every delivered message has a record in flight or persisted,
\* except a message handed to the recorder when it was closed or its queue was
\* full, and a message whose record the sink failed to write.
C19_DeliveredHasRecordUnlessDropped ==
    \A m \in Delivered : m \notin (dropped \cup failed) => HasRecord(m)

\* Three delivered messages: one persisted, one in the queue, one dropped.
C19_Witness ==
    \E m1, m2, m3 \in Delivered :
        /\ InSink(m1) # {}
        /\ \E i \in DOMAIN rec_queue : rec_queue[i].msg = m2
        /\ m3 \in dropped
        /\ ~HasRecord(m3)

\* The bus message m went through.
KindOf(m) ==
    IF \E i \in DOMAIN put_log : put_log[i].id = m THEN "command" ELSE "event"

\* C20 as stated: once aclose() has returned, the sink holds exactly one record
\* of every message put on either bus, of the kind of its bus.
C20_OneRecordPerMessage ==
    close_pc = "done" =>
        \A m \in 1..NumMessages :
            /\ Cardinality(InSink(m)) = 1
            /\ \A i \in InSink(m) : sink[i].kind = KindOf(m)

\* C20, amended: the sink never holds more than one record of a message, and
\* every record is of the kind of the message's bus; once aclose() has returned
\* the recorder's queue is empty and the sink holds exactly one record of every
\* message but those handed over when the recorder was closed or its queue
\* full and those whose write failed, of which it holds none.
C20_OneRecordPerRecordedMessage ==
    /\ \A m \in 1..NumMessages :
        /\ Cardinality(InSink(m)) <= 1
        /\ \A i \in InSink(m) : sink[i].kind = KindOf(m)
        /\ m \in (dropped \cup failed) => InSink(m) = {}
    /\ close_pc = "done" =>
        /\ rec_queue = <<>>
        /\ \A m \in 1..NumMessages :
            m \notin (dropped \cup failed) => Cardinality(InSink(m)) = 1

\* Closed with a command and an event in the sink and a message dropped.
C20_Witness ==
    /\ close_pc = "done"
    /\ \E i, j \in DOMAIN sink : sink[i].kind = "command" /\ sink[j].kind = "event"
    /\ dropped # {}

\* A step of put, publish or publish_many.
MessageStep == NumMessages' # NumMessages

\* The messages a step hands to the buses.
NewMessages == (NumMessages + 1)..NumMessages'

\* C21: when the recorder is open and its queue already holds max_queue_size
\* records, a put or publish completes in its one step, the queue keeps its
\* content, each new record is dropped and counted in write_failures,
\* first_failure_at is set if it was unset and last_failure_at is set to the
\* time of the call.
C21_FullQueueDropsAndCounts ==
    [][(MessageStep /\ ~rec_closed /\ Len(rec_queue) >= MaxQueueSize) =>
        /\ rec_queue' = rec_queue
        /\ NewMessages \subseteq dropped'
        /\ NewMessages \subseteq Delivered' \cup {m \in NewMessages : sub_slots = <<>>}
        /\ write_failures' = write_failures + Cardinality(NewMessages)
        /\ first_failure_at' = (IF first_failure_at = 0 THEN clock ELSE first_failure_at)
        /\ last_failure_at' = clock]_vars

\* Two records dropped on a full queue at different times.
C21_Witness ==
    /\ ~rec_closed
    /\ failed = {}
    /\ write_failures = 2
    /\ Cardinality(dropped) = 2
    /\ first_failure_at = 1
    /\ last_failure_at = 2

\* sink.write raises in this step.
WriteFailureStep == failed' # failed

\* Message m's record was passed to sink.write.
PassedToWrite(m) == m \in failed \/ InSink(m) # {}

\* C22: a step in which sink.write raises counts one write failure, changes
\* nothing a caller of put, publish or record_message sees, and leaves the
\* writer taking from the queue again with the queue as it was; a writer that
\* was started and has not taken None can always take the next record of the
\* queue or finish the write it is at.
C22_WriteFailureIsCountedAndContained ==
    /\ [][WriteFailureStep =>
            /\ write_failures' = write_failures + 1
            /\ rec_worker' = "get"
            /\ UNCHANGED <<rec_queue, rec_closed, effects, cmd_queue, sub_queue,
                           put_log, published, dropped, sink>>]_vars
    /\ [](/\ rec_queue # <<>> /\ Head(rec_queue) # Sentinel =>
                \/ rec_worker = "get" /\ ENABLED RecorderGet
                \/ rec_worker = "write" /\ ENABLED SinkWrite
          /\ rec_worker = "done" => rec_closed /\ sentinels_put = 1)

\* A record written after the write of an earlier one failed.
C22_Witness ==
    \E m1 \in failed, m2 \in 1..MaxMessages :
        /\ m1 < m2
        /\ InSink(m2) # {}
        /\ write_failures = 1

\* C23: when sink.close is about to be invoked, and from then on, every
\* message whose record the queue accepted has had it passed to sink.write,
\* the queue is empty and the writer is not writing; aclose() has returned
\* only if sink.close was invoked.
C23_DrainedBeforeSinkClosed ==
    /\ close_pc \in {"close_sink", "done"} =>
        /\ \A m \in 1..NumMessages : m \notin dropped => PassedToWrite(m)
        /\ rec_queue = <<>>
        /\ rec_worker \in {"none", "done"}
    /\ sink_closed => close_pc = "done"
    /\ close_pc = "done" => sink_closed

\* The sink is closed, and two records were queued or being written when
\* aclose() was called.
C23_Witness ==
    /\ sink_closed
    /\ Cardinality(close_pending) = 2
    /\ \A m \in close_pending : InSink(m) # {}

\* A call of aclose() on a recorder already marked closed.
RepeatedCloseStep == rec_closed /\ close_calls' = close_calls + 1

\* C24: over all calls of aclose() None is put on the queue at most once and
\* sink.close is invoked at most once, and once when the first call has
\* returned; a call on a closed recorder changes nothing.
C24_CloseIsIdempotent ==
    /\ [](/\ sentinels_put <= 1
          /\ sink_close_calls <= 1
          /\ close_pc = "done" => sink_close_calls = 1)
    /\ [][RepeatedCloseStep =>
            UNCHANGED <<rec_queue, rec_closed, rec_worker, rec_item, sink,
                        sink_closed, close_pc, sentinels_put, sink_close_calls,
                        write_failures>>]_vars

\* aclose() was called twice, and the call that closes has returned.
C24_Witness ==
    /\ close_calls = 2
    /\ close_pc = "done"
    /\ sentinels_put = 1
    /\ sink_close_calls = 1

\* C26: when N calls of acquire() on a fresh limiter have returned, the time
\* from the first call to the latest return is at least (N - capacity) / rate,
\* that is (N - rate) * TokenScale units of time.
C26_AcquiresTakeTime ==
    acquired > 0 => last_return - first_call >= (acquired - rate) * TokenScale

\* More calls than the bucket held, all by one caller and the first some time
\* after construction, took exactly the time of the tokens that were missing.
C26_Witness ==
    /\ acquired = rate + 2
    /\ first_call > 0
    /\ acquire_pc[2] = "idle"
    /\ wake_at[2] = 0
    /\ last_return - first_call = 2 * TokenScale

\* A call of acquire() returns in this step.
AcquireReturnStep == acquired' = acquired + 1

\* C30: the token count starts at capacity and stays within [0, capacity], and
\* a call of acquire() returns only in a step that takes exactly one token
\* from a refilled count of at least one.
C30_TokensWithinCapacity ==
    /\ [](/\ 0 <= token_count
          /\ token_count <= rate * TokenScale
          /\ (NumAcquires = 0 => token_count = rate * TokenScale))
    /\ [][AcquireReturnStep =>
            LET refilled == Min(rate * TokenScale,
                                token_count + (monotonic - last_checked_time))
            IN  /\ refilled >= TokenScale
                /\ token_count' = refilled - TokenScale]_vars

\* A call returned after sleeping, leaving a fraction of a token.
C30_Witness ==
    /\ acquired > rate
    /\ token_count > 0
    /\ token_count < TokenScale

\* The venue order ids of the OrderSubmitted events for trade_id among events.
SubmittedIds(events, trade_id) ==
    {events[i].venue_order_id :
        i \in {k \in DOMAIN events : /\ events[k].type = "order_submitted"
                                     /\ events[k].trade_id = trade_id}}

\* The venue order id of the last OrderSubmitted for trade_id among events.
LastSubmittedId(events, trade_id) ==
    LET is == {k \in DOMAIN events : /\ events[k].type = "order_submitted"
                                     /\ events[k].trade_id = trade_id}
    IN  events[CHOOSE k \in is : \A j \in is : j <= k].venue_order_id

\* C25: a call of wait_for_order_submitted(trade_id) returns only when the
\* portfolio manager has handled an OrderSubmitted for trade_id, and returns
\* the id that event carried (that of the latest one handled); it times out
\* only while no such event has been handled; and a call that waits while
\* such an event has been handled, whether it was handled before or after the
\* call began, can return and cannot time out.
C25_WaitReturnsSubmittedId ==
    /\ [](\A t \in TradeIds :
            /\ wait_pc[t] = "returned" =>
                /\ wait_result[t] \in SubmittedIds(handled, t)
                /\ wait_result[t] # 0
            /\ (wait_pc[t] = "waiting" /\ SubmittedIds(handled, t) # {}) =>
                /\ ENABLED WaitReturns(t)
                /\ ~ENABLED WaitTimesOut(t))
    /\ [][\A t \in TradeIds :
            /\ (wait_pc[t] = "waiting" /\ wait_pc'[t] = "returned") =>
                wait_result'[t] = LastSubmittedId(handled, t)
            /\ (wait_pc[t] = "waiting" /\ wait_pc'[t] = "timed_out") =>
                SubmittedIds(handled, t) = {}]_vars

\* One call began before its event was handled and one after; both returned
\* their order's id.
C25_Witness ==
    /\ wait_pc["t1"] = "returned"
    /\ wait_pc["t2"] = "returned"
    /\ wait_found["t1"] = "clear"
    /\ wait_found["t2"] = "set"
    /\ wait_result["t1"] = 1
    /\ wait_result["t2"] = 2

\* The step in which the positions poller resumes after get_positions_snapshot.
PositionsStep == positions_pc = "get_positions_snapshot" /\ positions_pc' = "sleep"

\* Event e is an ExecutionError with retryable true for venue order id vid.
IsRetryableErrorEvent(e, vid) ==
    e.type = "execution_error" /\ e.retryable = TRUE /\ e.venue_order_id = vid

\* C27: the step that resumes after a failed adapter call publishes exactly one
\* event (OrderRejected for place_order; ExecutionError with retryable true for
\* cancel_order, get_order_status and get_positions_snapshot), leaves the
\* tracked map as it was, and leaves its loop running: the consumer back at
\* get, the order poller at the next order of the tick or asleep, the positions
\* poller asleep; and a loop in one of these places can always take its next
\* step when there is a command, a tracked order or a tick left for it.
C27_AdapterFailureIsPublishedAndSurvived ==
    /\ [][/\ (SubmitHandledStep /\ ~consumer_result.ok) =>
                /\ NewEvents = <<OrderRejected(consumer_cmd.trade_id)>>
                /\ tracked' = tracked
          /\ (CancelHandledStep /\ ~consumer_result.ok) =>
                /\ Len(NewEvents) = 1
                /\ IsRetryableErrorEvent(NewEvents[1], consumer_cmd.venue_order_id)
                /\ tracked' = tracked
          /\ (PollStep /\ ~poll_result.ok) =>
                /\ Len(NewEvents) = 1
                /\ IsRetryableErrorEvent(NewEvents[1], Head(poll_keys))
                /\ tracked' = tracked
                /\ poll_keys' = Tail(poll_keys)
                /\ poller_pc' = (IF Tail(poll_keys) = <<>> THEN "sleep"
                                                          ELSE "get_order_status")
          /\ PositionsStep =>
                /\ Len(NewEvents) = 1
                /\ \/ NewEvents[1] = PositionSnapshot
                   \/ IsRetryableErrorEvent(NewEvents[1], 0)
                /\ tracked' = tracked]_vars
    /\ [](/\ (consumer_pc = "get" /\ cmd_queue # <<>>) => ENABLED ConsumeCommands
          /\ (poller_pc = "sleep" /\ tracked # <<>> /\ ticks < MaxTicks) =>
                ENABLED PollOrdersWake
          /\ poller_pc = "get_order_status" =>
                poll_keys # <<>> /\ ENABLED AdapterGetOrderStatus
          /\ (positions_pc = "sleep" /\ pos_polls < MaxPosPolls) =>
                ENABLED PollPositionsWake)

\* A submit was rejected and the next one handled; a status fetch failed and
\* the next tick published an update for the same order; a positions fetch
\* failed and the next one published a snapshot.
C27_Witness ==
    /\ Len(published) = 6
    /\ LET general == SelectSeq(published, LAMBDA e :
                          \/ e = PositionSnapshot
                          \/ e.type = "execution_error" /\ e.venue_order_id = 0)
           orders == SelectSeq(published, LAMBDA e :
                          /\ e # PositionSnapshot
                          /\ ~(e.type = "execution_error" /\ e.venue_order_id = 0))
       IN  /\ Len(general) = 2
           /\ IsRetryableErrorEvent(general[1], 0)
           /\ general[2] = PositionSnapshot
           /\ Len(orders) = 4
           /\ orders[1].type = "order_rejected"
           /\ orders[2].type = "order_submitted"
           /\ IsRetryableErrorEvent(orders[3], orders[2].venue_order_id)
           /\ orders[4].type = "order_update"

\* C28: the step that handles CancelOrder leaves the tracked map as it was,
\* whether cancel_order succeeded or failed; an order leaves the map only in
\* a step of the poller that resumes with a terminal status for that order.
C28_CancelLeavesTracked ==
    [][/\ CancelHandledStep => tracked' = tracked
       /\ \A vid \in VenueOrderIds :
            (IsTracked(tracked, vid) /\ ~IsTracked(tracked', vid)) =>
                /\ PollStep
                /\ poll_result.ok
                /\ IsTerminal(poll_result.status)
                /\ Head(poll_keys) = vid]_vars

\* OrderCanceled was published for an order that is still tracked, and so was
\* a later update of that order.
C28_Witness ==
    \E i, j \in DOMAIN published :
        /\ i < j
        /\ published[i].type = "order_canceled"
        /\ published[j].type = "order_update"
        /\ published[j].venue_order_id = published[i].venue_order_id
        /\ IsTracked(tracked, published[i].venue_order_id)

\* C29: when the poller resumes with (status, fill_count) for an order, the
\* step publishes OrderUpdate{vid, status, fill_count}, once, and overwrites
\* the order's record with the pair (removing it after that if the status is
\* terminal) if the pair differs from the tracked record in status or in fill
\* count; if both are equal it publishes nothing and leaves the map as it was;
\* no other step publishes an OrderUpdate.
C29_UpdateExactlyOnChange ==
    [][LET updates == SelectSeq(NewEvents, LAMBDA e : e.type = "order_update")
       IN  IF PollStep /\ poll_result.ok
           THEN LET vid == Head(poll_keys)
                    prev == TrackedGet(tracked, vid)
                IN  IF \/ poll_result.status # prev.status
                       \/ poll_result.fill_count # prev.fill_count
                    THEN /\ updates = <<OrderUpdate(vid, poll_result.status,
                                                    poll_result.fill_count)>>
                         /\ NewEvents[1] = updates[1]
                         /\ IF IsTerminal(poll_result.status)
                            THEN ~IsTracked(tracked', vid)
                            ELSE /\ IsTracked(tracked', vid)
                                 /\ TrackedGet(tracked', vid) =
                                        [vid |-> vid, status |-> poll_result.status,
                                         fill_count |-> poll_result.fill_count]
                    ELSE /\ NewEvents = <<>>
                         /\ tracked' = tracked
           ELSE updates = <<>>]_vars

\* Of two ticks whose fetches succeeded, one found the order changed and
\* published its update, the other found it equal and published nothing.
C29_Witness ==
    /\ ticks = MaxTicks
    /\ \A i \in DOMAIN published : published[i].type # "execution_error"
    /\ poller_pc = "sleep"
    /\ \E i \in DOMAIN tracked :
        /\ tracked[i].status = "resting"
        /\ tracked[i].fill_count = 1
    /\ Len(SelectSeq(published, LAMBDA e : e.type = "order_update")) = 1

\* C31: when the worker task is cancelled while a request is in flight, the
\* future of that request is completed (cancelled) by that step: it does not
\* stay pending.
C31_CancellationReachesCaller ==
    [][\A w \in Workers :
        (worker_pc[w] \in {"send", "sleep"} /\ worker_pc'[w] = "done")
            => fut'[worker_req[w]].state # "pending"]_vars

\* The cycle of request r ends in this step.
CycleEndStep(r) == r \notin cycle_done /\ r \in cycle_done'

\* C32: the step that ends the send-and-retry cycle of a request completes the
\* future of that request, and of no other, with the outcome of that cycle;
\* no future is completed by any other step; and every request submitted is
\* completed in the end, also one queued behind a request that failed.
C32_EveryRequestGetsItsOwnOutcome ==
    /\ [][\A r \in Requests :
            /\ CycleEndStep(r) =>
                /\ fut'[r].state # "pending"
                /\ \E w \in Workers :
                    /\ worker_req[w] = r
                    /\ returned'[w] \in Outcomes(r)
                    /\ Surfaces(fut'[r], returned'[w])
            /\ (fut[r].state = "pending"
                    /\ fut'[r].state \in {"result", "exception"})
                => CycleEndStep(r)]_vars
    /\ \A r \in Requests :
        (fut[r].state = "pending") ~> (fut[r].state # "pending")

\* The third request, queued behind a first that failed for good and a second
\* that succeeded, has its own result.
C32_Witness ==
    /\ fut[1].state = "exception"
    /\ fut[1].value = HttpError(1, 400)
    /\ fut[2].state = "result"
    /\ Len(enq_log) = 3
    /\ send_log[2] = 2
    /\ fut[3].state = "result"
    /\ fut[3].value = HttpOk(3)

\* The records waiting in the recorder's queue (None is no record).
QueuedRecords == SelectSeq(rec_queue, LAMBDA x : x # Sentinel)

\* The record the writer took and has not finished writing.
HeldRecords == IF rec_worker = "write" THEN 1 ELSE 0

\* C37: the calls of record_message that found the recorder open are as many
\* as the records the sink wrote, the failures counted, and the records still
\* in the queue or with the writer, taken together.
C37_EveryOpenCallAccounted ==
    open_calls = Len(sink) + write_failures + Len(QueuedRecords) + HeldRecords

\* Three calls on an open recorder: one record written, one dropped on a full
\* queue or failed in the sink, one still waiting.
C37_Witness ==
    /\ open_calls = 3
    /\ Len(sink) = 1
    /\ write_failures = 1
    /\ Len(QueuedRecords) + HeldRecords = 1

\* A call of aclose() returns in this step: the first call after sink.close,
\* or a call that found _closed set.
CloseReturnStep ==
    \/ close_pc # "done" /\ close_pc' = "done"
    \/ RepeatedCloseStep

\* C38: when a call of aclose() returns, whichever call it is, the recorder's
\* queue is drained and the sink is closed.
C38_CloseReturnsDrainedAndClosed ==
    [][CloseReturnStep => (rec_queue' = <<>> /\ sink_closed')]_vars

\* sink.write is invoked in this step.
WriteInvokedStep == rec_worker # "write" /\ rec_worker' = "write"

\* C39: once sink.close was invoked, sink.write is not invoked and none is
\* under way; and a put or publish on a recorder that aclose() has marked
\* closed leaves the recorder's queue, its writer and its counter as they were.
C39_NoWriteAfterClose ==
    /\ [](close_pc \in {"close_sink", "done"} => rec_worker # "write")
    /\ [][WriteInvokedStep => close_pc \notin {"close_sink", "done"}]_vars
    /\ [][(MessageStep /\ rec_closed) =>
            UNCHANGED <<rec_queue, rec_worker, write_failures, open_calls>>]_vars

\* A record was written, aclose() was called, a message came in after that
\* and was let go without a failure counted, and the sink is closed.
C39_Witness ==
    /\ sink_closed
    /\ Len(sink) = 1
    /\ write_failures = 0
    /\ dropped # {}
    /\ open_calls = 1
    /\ NumMessages = 2

\* Up to which publication queue q was subscribed.
SpanEnd(q) == IF sub_span[q].to = -1 THEN Len(published) ELSE sub_span[q].to

\* The publications made while queues p and q were both subscribed.
CommonSpan(p, q) ==
    {i \in DOMAIN published :
        /\ i > sub_span[p].from /\ i <= SpanEnd(p)
        /\ i > sub_span[q].from /\ i <= SpanEnd(q)}

\* What queue q received of the publications span, in the order received.
ReceivedOf(q, span) ==
    SelectSeq(sub_queue[q], LAMBDA e : \E i \in span : published[i] = e)

\* C33: two queues handed out by subscribe received the same sequence of events
\* out of the publications made while both were subscribed, one copy of each
\* of these publications, whenever the
\* callers of publish and publish_many took their turns (the engine's consumer
\* and its two pollers reach the bus through these two calls only).
C33_SameSpanSameSequence ==
    \A p, q \in DOMAIN sub_queue :
        /\ ReceivedOf(p, CommonSpan(p, q)) = ReceivedOf(q, CommonSpan(p, q))
        /\ Len(ReceivedOf(p, CommonSpan(p, q))) = Cardinality(CommonSpan(p, q))

\* One queue was subscribed before the first of three events and unsubscribed
\* after the second, another was subscribed after the first: the second event
\* is the one published while both were subscribed, and both received it.
C33_Witness ==
    /\ Len(published) = 3
    /\ \E p, q \in DOMAIN sub_queue :
        /\ sub_span[p] = [from |-> 0, to |-> 2]
        /\ sub_span[q] = [from |-> 1, to |-> -1]
        /\ CommonSpan(p, q) = {2}
        /\ ReceivedOf(p, CommonSpan(p, q)) = <<published[2]>>
        /\ Len(sub_queue[p]) = 2
        /\ Len(sub_queue[q]) = 2

\* The FillUpdate events published so far for an order, in order.
FillUpdatesOf(vid) ==
    SelectSeq(published,
              LAMBDA e : e.type = "fill_update" /\ e.venue_order_id = vid)

\* The sum of filled_delta over a sequence of FillUpdate events.
RECURSIVE SumDeltas(_)
SumDeltas(fills) ==
    IF fills = <<>> THEN 0 ELSE Head(fills).filled_delta + SumDeltas(Tail(fills))

\* C35: the filled_delta of all FillUpdate events of an order add up to the
\* filled_total of the latest of them, which is the fill_count the poller has
\* on record for the order while it tracks it, whatever statuses and fill
\* counts the venue reported.
C35_DeltasAddUpToTotal ==
    \A vid \in VenueOrderIds :
        LET fills == FillUpdatesOf(vid)
        IN  fills # <<>> =>
                /\ SumDeltas(fills) = fills[Len(fills)].filled_total
                /\ IsTracked(tracked, vid) =>
                        TrackedGet(tracked, vid).fill_count
                            = fills[Len(fills)].filled_total

\* The portfolio manager has handled every event published so far, and neither
\* the command consumer nor the order poller is inside a handler or a tick.
Quiescent ==
    /\ sub_queue["pm"] = <<>>
    /\ consumer_pc = "get"
    /\ poller_pc = "sleep"

\* C36: when the portfolio manager has handled every event published and the
\* engine is between handlers and between ticks, the manager's status and fill
\* count of every order the engine tracks are the engine's.
C36_ManagerViewMatchesTracked ==
    Quiescent =>
        \A i \in DOMAIN tracked :
            /\ order_status[tracked[i].vid] = tracked[i].status
            /\ order_fill_count[tracked[i].vid] = tracked[i].fill_count

\* Two orders tracked, one still as submitted and one seen resting with a
\* fill, and the manager has handled the events of both.
C36_Witness ==
    /\ Quiescent
    /\ Len(tracked) = 2
    /\ \E i, j \in DOMAIN tracked :
        /\ tracked[i].status = "submitted"
        /\ tracked[j].status = "resting"
        /\ tracked[j].fill_count = 2
    /\ \E k \in DOMAIN handled : handled[k].type = "fill_update"

\* C34: the create-order request of one SubmitOrder makes the venue create at
\* most one order, however often the retry policy sends it.
C34_OneOrderPerSubmit == \A r \in Requests : venue_created[r] <= 1

\* The poller holds the venue's answer for order vid.
Answered(vid) == poller_pc = "status_returned" /\ Head(poll_keys) = vid

\* The poller holds an answer for order vid that says executed or canceled.
AnsweredTerminal(vid) ==
    /\ Answered(vid)
    /\ poll_result.ok
    /\ IsTerminal(poll_result.status)

\* Event number i says that order vid is executed or canceled.
SaysTerminal(i, vid) ==
    /\ published[i].type = "order_update"
    /\ published[i].venue_order_id = vid
    /\ IsTerminal(published[i].status)

\* C40: while the poller has ticks to go, every tracked order gets its turn and
\* an answer; the turn that handles an answer of executed or canceled removes
\* the order, so an order whose status stays so is removed by the first answer
\* that arrives; and once an OrderUpdate said executed or canceled, the only
\* event about the order that follows is the FillUpdate of that same turn.
C40_TerminalOrdersLeaveForGood ==
    /\ \A vid \in VenueOrderIds :
        (IsTracked(tracked, vid) /\ ticks < MaxTicks) ~> Answered(vid)
    /\ \A vid \in VenueOrderIds :
        AnsweredTerminal(vid) ~> ~IsTracked(tracked, vid)
    /\ [][\A vid \in VenueOrderIds :
            (AnsweredTerminal(vid) /\ PollStep) => ~IsTracked(tracked', vid)]_vars
    /\ [](\A vid \in VenueOrderIds : \A i, j \in DOMAIN published :
            (/\ i < j
             /\ SaysTerminal(i, vid)
             /\ published[j].type \in {"order_update", "fill_update"}
             /\ published[j].venue_order_id = vid)
            => (/\ j = i + 1
                /\ published[j].type = "fill_update"
                /\ published[j].filled_total = published[i].fill_count
                /\ ~IsTracked(tracked, vid)))

\* An order seen resting on the first tick and executed on the second is gone
\* from the tracked map, and the other order is still tracked.
C40_Witness ==
    /\ ticks = 2
    /\ poller_pc = "sleep"
    /\ \E i, j \in DOMAIN published :
        /\ i < j
        /\ published[i] = OrderUpdate(1, "resting", 0)
        /\ SaysTerminal(j, 1)
    /\ ~IsTracked(tracked, 1)
    /\ IsTracked(tracked, 2)
====
